---- MODULE Spec2Model ----
(***************************************************************************)
(* A model of the resilience pipeline of price-provider:                   *)
(*   - cache.Provider          (internal/provider/cache/cache.go)          *)
(*   - ratelimit.TokenBucket   (internal/provider/ratelimit/tokenbucket.go)*)
(*   - ratelimit.MinInterval   (internal/provider/ratelimit/ratelimit.go)  *)
(*   - fetchSplit              (cmd/steamdt_dump/main.go)                  *)
(* Each component has its own specification over the shared variables; the *)
(* variables of the other components stay at their initial values.         *)
(* Time is a discrete clock `now`; a Go time.Time is a tick count.         *)
(***************************************************************************)
EXTENDS Integers, Sequences, FiniteSets, TLC

VARIABLES
    now,        \* the wall clock (time.Now()), in ticks
    items,      \* cache.Provider.items: symbol -> entry
    maxItems,   \* cache.Provider.MaxItems
    upCalls,    \* number of calls made to the wrapped provider of the cache
    cStarted,   \* number of cache.Provider.Fetch calls started
    cf,         \* per goroutine: the locals of its running cache.Provider.Fetch
    limiter,    \* which rate limiter wraps the provider: "tb" or "mi"
    tb,         \* the TokenBucket: capacity, tokens, last
    tbHist,     \* observed: the grant times, and whether the last refill clamped
    mi,         \* the MinInterval: last, and (observed) when P.Fetch last ended
    rlStarted,  \* number of rate-limited Fetch calls started
    rl,         \* per goroutine: its running rate-limited Fetch
    spCfg,      \* fetchSplit: the batch size, maxRetries and the upstream's limit
    sp,         \* fetchSplit: the call stack of the recursion and its final result
    spHist,     \* observed: the requests made and how they were answered
    ssCache,    \* skinstablexyz Provider.cache: site -> siteCache
    ssFlight,   \* skinstablexyz Provider.sf: site -> the call in flight, if any
    ssReqs,     \* number of fetchSite requests made, per site
    ssStarted,  \* number of skinstablexyz Fetch calls started
    ssCall,     \* per goroutine: the locals of its running skinstablexyz Fetch
    ns,         \* NormalizeSource: the source tag given and the (market, side) returned
    ag,         \* LatestByMarket: the quotes given, includeSides, and the rows returned
    wq,         \* writeQuotes: the provider tasks, the channel, the locals and the response
    sd,         \* steamdt Provider.Fetch: the batch goroutines, sem, byMarketAll, firstErr
    bo,         \* fetchSplit's retry loop in time: attempt, the backoff sleep, ctx
    lk          \* cache.Provider.mu and the goroutines that take it; whether items is nil

cacheVars == <<items, maxItems, upCalls, cStarted, cf>>
rlVars == <<limiter, tb, tbHist, mi, rlStarted, rl>>
splitVars == <<spCfg, sp, spHist>>
ssVars == <<ssCache, ssFlight, ssReqs, ssStarted, ssCall>>
aggVars == <<ns, ag>>
fanVars == <<wq>>
sdVars == <<sd>>
boVars == <<bo>>
lkVars == <<lk>>
vars == <<now, cacheVars, rlVars, splitVars, ssVars, aggVars, fanVars, sdVars, boVars, lkVars>>
nonCache == <<rlVars, splitVars, ssVars, aggVars, fanVars, sdVars, boVars, lkVars>>
nonRL == <<cacheVars, splitVars, ssVars, aggVars, fanVars, sdVars, boVars, lkVars>>
nonSplit == <<now, cacheVars, rlVars, ssVars, aggVars, fanVars, sdVars, boVars, lkVars>>
nonSS == <<cacheVars, rlVars, splitVars, aggVars, fanVars, sdVars, boVars, lkVars>>
nonAgg == <<now, cacheVars, rlVars, splitVars, ssVars, fanVars, sdVars, boVars, lkVars>>
nonFan == <<cacheVars, rlVars, splitVars, ssVars, aggVars, sdVars, boVars, lkVars>>
nonSD == <<now, cacheVars, rlVars, splitVars, ssVars, aggVars, fanVars, boVars, lkVars>>
nonBo == <<cacheVars, rlVars, splitVars, ssVars, aggVars, fanVars, sdVars, lkVars>>
nonLk == <<now, cacheVars, rlVars, splitVars, ssVars, aggVars, fanVars, sdVars, boVars>>

(***************************************************************************)
(* Bounds of the model.                                                    *)
(***************************************************************************)
NSym == 2           \* distinct symbols
MaxReqLen == 2      \* longest request (a request may repeat a symbol)
MaxTime == 3        \* last tick of the clock
MaxFetches == 2     \* cache.Provider.Fetch calls per behaviour
MaxItemsCap == 1    \* largest MaxItems tried (0 = no cap)

Syms == 1..NSym
CProcs == {1}       \* goroutines calling cache.Provider.Fetch (calls in sequence)

Min(a, b) == IF a < b THEN a ELSE b

(***************************************************************************)
(* cache.Provider                                                          *)
(***************************************************************************)
\* Provider.TTL; the callers build a cache.Provider only for a TTL > 0.
TTL == 2

\* A provider.Quote: its symbol and the upstream call that produced it.
Quote(s, n) == [sym |-> s, ver |-> n]

\* type entry; present = FALSE is the map's "no such key".
NoEntry == [present |-> FALSE, expiresAt |-> 0, quotes |-> <<>>]
Entry(exp, qs) == [present |-> TRUE, expiresAt |-> exp, quotes |-> qs]

\* A mutant of IsValid: an entry never expires.
IsValidNoExpiry(e, t) == e.present

\* `e, ok := c.items[s]; ok && now.Before(e.expiresAt)`
IsValid(e, t) == e.present /\ t < e.expiresAt

\* The first loop of Fetch: the quotes of the valid entries, in request order.
RECURSIVE CachedOf(_, _, _)
CachedOf(symbols, its, t) ==
    IF symbols = <<>> THEN <<>>
    ELSE (IF IsValid(its[Head(symbols)], t) THEN its[Head(symbols)].quotes ELSE <<>>)
         \o CachedOf(Tail(symbols), its, t)

\* The first loop of Fetch: missingSet.
MissingSet(symbols, its, t) ==
    {symbols[i] : i \in {j \in 1..Len(symbols) : ~IsValid(its[symbols[j]], t)}}

\* A mutant of MissingList: no `seen` set, a repeated symbol is listed twice.
MissingListDup(symbols, mset) == SelectSeq(symbols, LAMBDA s : s \in mset)

\* The second loop of Fetch: the unique missing symbols in request order.
RECURSIVE MissingFrom(_, _, _)
MissingFrom(symbols, mset, seen) ==
    IF symbols = <<>> THEN <<>>
    ELSE LET s == Head(symbols) IN
         IF s \in mset /\ s \notin seen
         THEN <<s>> \o MissingFrom(Tail(symbols), mset, seen \cup {s})
         ELSE MissingFrom(Tail(symbols), mset, seen)

MissingList(symbols, mset) == MissingFrom(symbols, mset, {})

\* A mutant of Degraded: a failed upstream call always fails the Fetch.
DegradedNever(cached) == FALSE

\* `if len(cached) > 0`: a failed upstream call is answered from the cache.
Degraded(cached) == Len(cached) > 0

\* bySymbol[s]: the fresh quotes of symbol s, in the order upstream gave them.
BySymbol(fresh, s) == SelectSeq(fresh, LAMBDA q : q.sym = s)

\* A mutant of StoreFresh: every symbol gets an entry, with or without quotes.
StoreFreshAll(its, fresh, expiry) ==
    [s \in Syms |-> Entry(expiry, BySymbol(fresh, s))]

\* "Update cache": every symbol with fresh quotes gets an entry with `expiry`.
StoreFresh(its, fresh, expiry) ==
    [s \in Syms |-> IF BySymbol(fresh, s) # <<>>
                    THEN Entry(expiry, BySymbol(fresh, s)) ELSE its[s]]

Keys(its) == {s \in Syms : its[s].present}
Drop(its, ks) == [s \in Syms |-> IF s \in ks THEN NoEntry ELSE its[s]]

\* A mutant of Evictions: only the first loop, which deletes expired entries.
EvictionsExpiredOnly(its, cap, t) ==
    LET over == Cardinality(Keys(its)) - cap IN
    IF cap > 0 /\ over > 0
    THEN LET expired == {k \in Keys(its) : t > its[k].expiresAt}
             n1 == Min(Cardinality(expired), over)
         IN  {Drop(its, E1) : E1 \in {A \in SUBSET expired : Cardinality(A) = n1}}
    ELSE {its}

\* "best-effort cap cache size": the maps the two eviction loops can leave.
\* Go iterates a map in an unspecified order. The first loop deletes the
\* expired entries it meets (time.Now().After(expiresAt)) and stops as soon
\* as the size is within the cap; the second deletes any keys until it is.
Evictions(its, cap, t) ==
    LET over == Cardinality(Keys(its)) - cap IN
    IF cap > 0 /\ over > 0
    THEN LET expired == {k \in Keys(its) : t > its[k].expiresAt}
             n1 == Min(Cardinality(expired), over)
         IN  {Drop(its, E1 \cup E2) :
                 <<E1, E2>> \in {<<A, B>> \in (SUBSET expired) \X (SUBSET Keys(its)) :
                                    /\ Cardinality(A) = n1
                                    /\ A \cap B = {}
                                    /\ Cardinality(B) = over - n1}}
    ELSE {its}

\* The answers the wrapped provider can give to P.Fetch(missing): for any
\* subset of the requested symbols one quote each, in request order or in the
\* reverse order.
Reverse(s) == [i \in 1..Len(s) |-> s[Len(s) + 1 - i]]
ToQuotes(syms, n) == [i \in 1..Len(syms) |-> Quote(syms[i], n)]
UpstreamAnswers(missing, n) ==
    UNION {{ToQuotes(SelectSeq(missing, LAMBDA s : s \in R), n),
            ToQuotes(Reverse(SelectSeq(missing, LAMBDA s : s \in R)), n)} :
           R \in SUBSET {missing[i] : i \in 1..Len(missing)}}

\* A mutant of AfterUpstream: a failed call falls through to "Update cache".
AfterUpstreamAlwaysStore(failed) == "store"

\* `if err != nil { ... return }`: where Fetch goes when P.Fetch has returned.
AfterUpstream(failed) == IF failed THEN "done" ELSE "store"

\* The locals of one Fetch, and what it has observed so far.
IdleFetch == [pc |-> "idle", symbols |-> <<>>, now0 |-> 0, cached |-> <<>>,
              missing |-> <<>>, fresh |-> <<>>, out |-> <<>>, err |-> "nil",
              idx |-> 0, calls |-> 0, upArgs |-> <<>>, upErr |-> FALSE,
              items0 |-> [s \in Syms |-> NoEntry], evicted |-> FALSE]

Requests == UNION {[1..n -> Syms] : n \in 1..MaxReqLen}

\* A Fetch that has returned stays "done", showing its result, until
\* CacheReturn frees its goroutine; that step is local, so it is taken before
\* any other goroutine moves.
NoneDone == \A q \in CProcs : cf[q].pc # "done"

\* Fetch up to the call of the wrapped provider (cache.go 33-57). Goroutines
\* are interchangeable, so a new call runs on the lowest free one.
CacheStart(p, symbols) ==
    /\ NoneDone
    /\ cf[p].pc = "idle"
    /\ \A q \in CProcs : q < p => cf[q].pc # "idle"
    /\ cStarted < MaxFetches
    /\ cStarted' = cStarted + 1
    /\ LET cached == CachedOf(symbols, items, now)
           mset == MissingSet(symbols, items, now)
           f0 == [IdleFetch EXCEPT !.symbols = symbols, !.now0 = now,
                                   !.items0 = items]
       IN  cf' = [cf EXCEPT ![p] =
                IF TTL <= 0
                THEN [f0 EXCEPT !.pc = "bypass", !.missing = symbols]
                ELSE IF mset = {}
                THEN [f0 EXCEPT !.pc = "done", !.cached = cached, !.out = cached]
                ELSE [f0 EXCEPT !.pc = "upstream", !.cached = cached,
                                !.missing = MissingList(symbols, mset)]]
    /\ UNCHANGED <<now, items, maxItems, upCalls>>
    /\ UNCHANGED nonCache

\* `fresh, err := c.P.Fetch(ctx, missing)` fails or is cancelled (cache.go
\* 67-74). The interface lets the wrapped provider hand back the quotes it
\* gathered together with the error; Fetch returns without looking at them.
CacheUpstreamFail(p) ==
    /\ NoneDone
    /\ cf[p].pc \in {"upstream", "bypass"}
    /\ upCalls' = upCalls + 1
    /\ \E fresh \in UpstreamAnswers(cf[p].missing, upCalls + 1) :
          cf' = [cf EXCEPT ![p] =
            IF cf[p].pc = "upstream" /\ Degraded(cf[p].cached)
            THEN [@ EXCEPT !.pc = AfterUpstream(TRUE), !.out = cf[p].cached,
                           !.err = "nil", !.fresh = fresh,
                           !.calls = @ + 1, !.upArgs = cf[p].missing, !.upErr = TRUE]
            ELSE [@ EXCEPT !.pc = IF cf[p].pc = "bypass" THEN "done"
                                  ELSE AfterUpstream(TRUE),
                           !.out = <<>>, !.err = "upstream", !.fresh = fresh,
                           !.calls = @ + 1, !.upArgs = cf[p].missing, !.upErr = TRUE]]
    /\ UNCHANGED <<now, items, maxItems, cStarted>>
    /\ UNCHANGED nonCache

\* `fresh, err := c.P.Fetch(ctx, missing)` succeeds (cache.go 67).
CacheUpstreamOk(p) ==
    /\ NoneDone
    /\ cf[p].pc \in {"upstream", "bypass"}
    /\ upCalls' = upCalls + 1
    /\ \E fresh \in UpstreamAnswers(cf[p].missing, upCalls + 1) :
          cf' = [cf EXCEPT ![p] =
            IF cf[p].pc = "bypass"
            THEN [@ EXCEPT !.pc = "done", !.out = fresh, !.fresh = fresh,
                           !.calls = @ + 1, !.upArgs = cf[p].missing]
            ELSE [@ EXCEPT !.pc = AfterUpstream(FALSE), !.fresh = fresh,
                           !.calls = @ + 1, !.upArgs = cf[p].missing]]
    /\ UNCHANGED <<now, items, maxItems, cStarted>>
    /\ UNCHANGED nonCache

\* "Update cache" and the cap, under c.mu.Lock() (cache.go 76-111).
CacheStore(p) ==
    /\ NoneDone
    /\ cf[p].pc = "store"
    /\ LET stored == StoreFresh(items, cf[p].fresh, cf[p].now0 + TTL) IN
       \E its \in Evictions(stored, maxItems, now) :
          /\ items' = its
          /\ cf' = [cf EXCEPT ![p] = [@ EXCEPT !.pc = "merge", !.idx = 1,
                                              !.evicted = (its # stored)]]
    /\ UNCHANGED <<now, maxItems, upCalls, cStarted>>
    /\ UNCHANGED nonCache

\* One round of the final loop (cache.go 113-126): the fresh quotes of the
\* symbol, or else its entry read again from the map under c.mu.RLock().
CacheMerge(p) ==
    /\ NoneDone
    /\ cf[p].pc = "merge"
    /\ LET f == cf[p]
           s == f.symbols[f.idx]
           add == IF BySymbol(f.fresh, s) # <<>> THEN BySymbol(f.fresh, s)
                  ELSE IF IsValid(items[s], f.now0) THEN items[s].quotes
                  ELSE <<>>
       IN  cf' = [cf EXCEPT ![p] =
                [@ EXCEPT !.out = @ \o add, !.idx = @ + 1,
                          !.pc = IF f.idx = Len(f.symbols) THEN "done" ELSE "merge"]]
    /\ UNCHANGED <<now, items, maxItems, upCalls, cStarted>>
    /\ UNCHANGED nonCache

\* Fetch has returned; the goroutine is free for another call.
CacheReturn(p) ==
    /\ cf[p].pc = "done"
    /\ cf' = [cf EXCEPT ![p] = IdleFetch]
    /\ UNCHANGED <<now, items, maxItems, upCalls, cStarted>>
    /\ UNCHANGED nonCache

\* Time passes.
CacheTick ==
    /\ NoneDone
    /\ now < MaxTime
    /\ now' = now + 1
    /\ UNCHANGED <<items, maxItems, upCalls, cStarted, cf>>
    /\ UNCHANGED nonCache

(***************************************************************************)
(* Claims about cache.Provider.  A Fetch that has returned is "done"; its  *)
(* record holds the request, the clock and the map as they were when it    *)
(* began (now0, items0), the arguments and number of its upstream calls,   *)
(* and what it returned (out, err).                                        *)
(***************************************************************************)
SeqSet(q) == {q[i] : i \in 1..Len(q)}
ValidAt0(f) == {s \in Syms : f.items0[s].present /\ f.now0 < f.items0[s].expiresAt}
ExpiredAt0(f) == {s \in Syms : f.items0[s].present /\ f.now0 > f.items0[s].expiresAt}
Occurrences(q, x) == Cardinality({i \in 1..Len(q) : q[i] = x})

RECURSIVE Concat(_)
Concat(ss) == IF ss = <<>> THEN <<>> ELSE Head(ss) \o Concat(Tail(ss))

\* The elements of q at the positions I, in their order in q.
RECURSIVE PickAt(_, _, _)
PickAt(q, I, i) ==
    IF i > Len(q) THEN <<>>
    ELSE (IF i \in I THEN <<q[i]>> ELSE <<>>) \o PickAt(q, I, i + 1)

\* C1: a Fetch that begins strictly before the expiry of the entries of all
\* its identifiers makes no upstream call; an identifier whose entry is
\* unexpired is never sent upstream; a Fetch that begins strictly after the
\* expiry of the entry of one of its identifiers makes exactly one upstream
\* call, and that call asks for the identifier.
C1_TtlServedThenRefetched ==
    \A p \in CProcs : LET f == cf[p] IN
        /\ \A s \in SeqSet(f.symbols) \cap ValidAt0(f) : s \notin SeqSet(f.upArgs)
        /\ f.pc = "done" =>
            /\ (SeqSet(f.symbols) \subseteq ValidAt0(f) => f.calls = 0)
            /\ \A s \in SeqSet(f.symbols) \cap ExpiredAt0(f) :
                  f.calls = 1 /\ Occurrences(f.upArgs, s) = 1

\* C1 witness: a Fetch has returned that began strictly after the expiry of
\* the entry of a requested identifier, after one upstream call.
C1_Witness ==
    \E p \in CProcs : LET f == cf[p] IN
        /\ f.pc = "done"
        /\ SeqSet(f.symbols) \cap ExpiredAt0(f) # {}
        /\ f.calls = 1

\* The quotes the request had validly cached when the Fetch began.
ExpectedCached(f) ==
    Concat([i \in 1..Len(f.symbols) |->
              IF f.symbols[i] \in ValidAt0(f)
              THEN f.items0[f.symbols[i]].quotes ELSE <<>>])

\* C2: when the upstream call fails, Fetch returns the valid cached quotes of
\* the request and no error if some requested identifier was validly cached,
\* and the upstream error otherwise.
C2_DegradedOnUpstreamError ==
    \A p \in CProcs : LET f == cf[p] IN
        (f.pc = "done" /\ f.upErr) =>
            IF SeqSet(f.symbols) \cap ValidAt0(f) # {}
            THEN f.err = "nil" /\ f.out = ExpectedCached(f)
            ELSE f.err = "upstream" /\ f.out = <<>>

\* C2 witness: the upstream call failed and the Fetch returned cached quotes.
C2_Witness ==
    \E p \in CProcs : LET f == cf[p] IN
        /\ f.pc = "done" /\ f.upErr
        /\ SeqSet(f.symbols) \cap ValidAt0(f) # {}
        /\ f.out # <<>>

\* The missing or expired identifiers of the request, each at its first
\* position only.
ExpectedMissing(f) ==
    PickAt(f.symbols,
           {i \in 1..Len(f.symbols) :
               /\ f.symbols[i] \notin ValidAt0(f)
               /\ \A j \in 1..(i - 1) : f.symbols[j] # f.symbols[i]},
           1)

\* C3: a Fetch with a missing or expired identifier calls upstream exactly
\* once, with the missing or expired identifiers, each once, in the order of
\* their first occurrence, and with no validly cached identifier.
C3_FetchOnlyMissing ==
    \A p \in CProcs : LET f == cf[p] IN
        /\ f.calls <= 1
        /\ f.calls = 1 => f.upArgs = ExpectedMissing(f)
        /\ (f.pc \in {"store", "merge", "done"}
              /\ ~(SeqSet(f.symbols) \subseteq ValidAt0(f))) => f.calls = 1

\* C3 witness: an upstream call was made for a request that repeats a missing
\* identifier and also names a validly cached one.
C3_Witness ==
    \E p \in CProcs : LET f == cf[p] IN
        /\ f.calls = 1
        /\ SeqSet(f.symbols) \cap ValidAt0(f) # {}
        /\ Len(f.upArgs) < Len(f.symbols)

\* What a successful Fetch should return: for each position of the request
\* the quotes validly cached when it began, or else the fresh quotes.
ExpectedMerge(f) ==
    Concat([i \in 1..Len(f.symbols) |->
              IF f.symbols[i] \in ValidAt0(f)
              THEN f.items0[f.symbols[i]].quotes
              ELSE BySymbol(f.fresh, f.symbols[i])])

\* C4: a successful Fetch returns, in request order, the quotes that were
\* validly cached when it began and the fresh quotes of the missing
\* identifiers, also when storing the fresh entries evicts entries.
C4_MergeKeepsCached ==
    \A p \in CProcs : LET f == cf[p] IN
        (f.pc = "done" /\ ~f.upErr /\ f.err = "nil") => f.out = ExpectedMerge(f)

\* C34: the entries written by one Fetch carry one common expiresAt, which is
\* the time at which they are stored plus TTL.
C34_ExpiryFromStoreTime ==
    [][\A p \in CProcs :
         (cf[p].pc = "store" /\ cf'[p].pc = "merge") =>
            \A s \in Syms :
               (BySymbol(cf[p].fresh, s) # <<>> /\ items'[s].present) =>
                  items'[s].expiresAt = now + TTL]_vars

\* C35: with MaxItems > 0 the map never holds more than MaxItems entries once
\* a Fetch has stored its fresh entries.
C35_SizeWithinCap ==
    maxItems > 0 => Cardinality(Keys(items)) <= maxItems

\* C35 witness: a Fetch that stored fresh quotes of more identifiers than the
\* cap allows has returned, after an eviction.
C35_Witness ==
    \E p \in CProcs : LET f == cf[p] IN
        /\ f.pc = "done" /\ ~f.upErr /\ maxItems > 0
        /\ f.evicted
        /\ Cardinality({s \in Syms : BySymbol(f.fresh, s) # <<>>}) > maxItems

\* C37: a Fetch whose upstream call failed or was cancelled returns with the
\* map exactly as it found it.
C37_FailedFetchLeavesCache ==
    \A p \in CProcs : LET f == cf[p] IN
        (f.pc = "done" /\ f.upErr) => items = f.items0

\* C37 witness: the failed call had gathered quotes, the map held an entry
\* of an earlier request, and the Fetch has returned.
C37_Witness ==
    \E p \in CProcs : LET f == cf[p] IN
        /\ f.pc = "done" /\ f.upErr
        /\ f.fresh # <<>>
        /\ Keys(f.items0) # {}

\* C40: every entry holds at least one quote, all of its own identifier, and
\* an identifier that a successful upstream call returned no quote for is
\* still missing afterwards, so that the next Fetch asks for it again.
C40_NoEntryWithoutQuotes ==
    /\ \A s \in Syms : items[s].present =>
          /\ items[s].quotes # <<>>
          /\ \A i \in 1..Len(items[s].quotes) : items[s].quotes[i].sym = s
    /\ \A p \in CProcs : LET f == cf[p] IN
          (f.pc \in {"merge", "done"} /\ ~f.upErr /\ f.calls = 1 /\ TTL > 0) =>
             \A s \in SeqSet(f.upArgs) :
                BySymbol(f.fresh, s) = <<>> => ~IsValid(items[s], now)

\* C40 witness: within the TTL of an earlier upstream call, a successful
\* upstream call returned a quote for one requested identifier and none for
\* another, and the Fetch has returned.
C40_Witness ==
    \E p \in CProcs : LET f == cf[p] IN
        /\ f.pc = "done" /\ ~f.upErr /\ f.calls = 1
        /\ upCalls >= 2 /\ now < TTL
        /\ f.fresh # <<>>
        /\ \E s \in SeqSet(f.upArgs) : BySymbol(f.fresh, s) = <<>>

\* The component at rest, for the specifications of the other components.
RestCache ==
    /\ items = [s \in Syms |-> NoEntry]
    /\ maxItems = 0
    /\ upCalls = 0
    /\ cStarted = 0
    /\ cf = [p \in CProcs |-> IdleFetch]

InitCache ==
    /\ items = [s \in Syms |-> NoEntry]
    /\ maxItems \in 0..MaxItemsCap
    /\ upCalls = 0
    /\ cStarted = 0
    /\ cf = [p \in CProcs |-> IdleFetch]

(***************************************************************************)
(* ratelimit.TokenBucket and ratelimit.MinInterval                         *)
(*                                                                         *)
(* A provider is wrapped by one of the two (cmd/fetch/main.go 69-77).      *)
(* Tokens are counted in units of 1/TicksPerToken of a token, so that the  *)
(* refill `elapsed * rate` of one tick is one unit.                        *)
(***************************************************************************)
MaxBurst == 2       \* largest burst passed to NewTokenBucket
RLMaxCalls == 4     \* rate-limited Fetch calls per behaviour
RLMaxTime == 4      \* last tick of the clock

RProcs == {1, 2}    \* goroutines calling the rate-limited Fetch concurrently

\* 1 / TokenBucket.rate, in ticks.
TicksPerToken == 2

\* MinInterval.Interval, in ticks.
Interval == 2

\* A mutant of NewTokenBucket: the bucket starts empty.
NewTokenBucketEmpty(burst, t) ==
    LET b == IF burst <= 0 THEN 1 ELSE burst IN
    [capacity |-> b * TicksPerToken, tokens |-> 0, last |-> t]

\* NewTokenBucket(tokensPerSecond, burst), built at time t.
NewTokenBucket(burst, t) ==
    LET b == IF burst <= 0 THEN 1 ELSE burst IN
    [capacity |-> b * TicksPerToken, tokens |-> b * TicksPerToken, last |-> t]

\* A mutant of Refill: the tokens are not clamped to the capacity.
RefillNoClamp(b, t) ==
    IF t - b.last > 0
    THEN [b EXCEPT !.tokens = b.tokens + (t - b.last), !.last = t]
    ELSE b

\* "Refill" in wait: tokens += elapsed * rate, clamped to capacity.
Refill(b, t) ==
    IF t - b.last > 0
    THEN [b EXCEPT !.tokens = Min(b.tokens + (t - b.last), b.capacity), !.last = t]
    ELSE b

\* `waitDur`: the time to accumulate the deficit, at least the minimum wait.
WaitDur(tokens) ==
    LET deficit == TicksPerToken - tokens IN
    IF deficit <= 0 THEN 1 ELSE deficit

IdleCall == [pc |-> "idle", wake |-> 0, cancelled |-> FALSE, inWait |-> FALSE,
             invoked |-> FALSE, consumed |-> 0, slept |-> FALSE,
             grantsAtSleep |-> 0, hasPrev |-> FALSE, gap |-> 0]

TakeNothing(b) == b

\* `tb.tokens -= 1`
Take(b) == [b EXCEPT !.tokens = @ - TicksPerToken]

\* One pass of the loop of TokenBucket.wait under tb.mu (tokenbucket.go
\* 36-58), entered by TokenBucketProvider.Fetch or after the timer fired.
\* With a token the wait returns nil and Fetch calls the wrapped provider;
\* without one the goroutine starts a timer for the deficit.
TBWait(p) ==
    /\ limiter = "tb"
    /\ \/ rl[p].pc = "try" /\ rlStarted' = rlStarted
       \/ /\ rl[p].pc = "idle" /\ rlStarted < RLMaxCalls
          /\ \A q \in RProcs : q < p => rl[q].pc # "idle"
          /\ rlStarted' = rlStarted + 1
    /\ LET b == Refill(tb, now) IN
       /\ tbHist' = [tbHist EXCEPT
                       !.clamped = (now - tb.last > 0
                                    /\ tb.tokens + (now - tb.last) > tb.capacity),
                       !.grants = IF b.tokens >= TicksPerToken
                                  THEN Append(@, now) ELSE @]
       /\ IF b.tokens >= TicksPerToken
          THEN /\ tb' = Take(b)
               /\ rl' = [rl EXCEPT ![p] = [@ EXCEPT !.pc = "done", !.invoked = TRUE,
                                                   !.consumed = @ + 1]]
          ELSE /\ tb' = b
               /\ rl' = [rl EXCEPT ![p] =
                          [@ EXCEPT !.pc = "sleep",
                                    !.wake = now + WaitDur(b.tokens),
                                    !.grantsAtSleep = IF rl[p].slept THEN @
                                                      ELSE Len(tbHist.grants),
                                    !.slept = TRUE]]
    /\ UNCHANGED <<now, limiter, mi>>
    /\ UNCHANGED nonRL

\* The gate of MinInterval.Fetch under m.mu (ratelimit.go 23-27): with no
\* wait left the wrapped provider is called at once (line 39).
MIGate(p) ==
    /\ limiter = "mi"
    /\ rl[p].pc = "idle" /\ rlStarted < RLMaxCalls
    /\ \A q \in RProcs : q < p => rl[q].pc # "idle"
    /\ rlStarted' = rlStarted + 1
    /\ LET wait == IF mi.lastSet THEN mi.last + Interval - now ELSE 0 - 1 IN
       rl' = [rl EXCEPT ![p] =
               IF Interval > 0 /\ wait > 0
               THEN [@ EXCEPT !.pc = "sleep", !.wake = now + wait, !.slept = TRUE]
               ELSE [@ EXCEPT !.pc = "call", !.invoked = TRUE,
                              !.hasPrev = mi.ended, !.gap = now - mi.endT]]
    /\ UNCHANGED <<now, limiter, tb, tbHist, mi>>
    /\ UNCHANGED nonRL

\* `case <-timer.C`: the timer fires, at its time or later, on a goroutine
\* blocked in the select. The token bucket tries again; MinInterval calls
\* the wrapped provider.
RLTimer(p) ==
    /\ rl[p].pc = "sleep"
    /\ now >= rl[p].wake
    /\ rl' = [rl EXCEPT ![p] =
               IF limiter = "tb"
               THEN [@ EXCEPT !.pc = "try"]
               ELSE [@ EXCEPT !.pc = "call", !.invoked = TRUE,
                              !.hasPrev = mi.ended, !.gap = now - mi.endT]]
    /\ UNCHANGED <<now, limiter, tb, tbHist, mi, rlStarted>>
    /\ UNCHANGED nonRL

\* A mutant of RLCancel: the wait does not listen to ctx.Done().
RLCancelUnheard(p) ==
    /\ rl[p].pc \in {"try", "sleep", "call"}
    /\ ~rl[p].cancelled
    /\ rl' = [rl EXCEPT ![p] = [@ EXCEPT !.cancelled = TRUE,
                                        !.inWait = (rl[p].pc = "sleep")]]
    /\ UNCHANGED <<now, limiter, tb, tbHist, mi, rlStarted>>
    /\ UNCHANGED nonRL

\* The caller's context is cancelled or its deadline passes. A goroutine
\* blocked in the select is woken by `case <-ctx.Done()` and returns
\* ctx.Err() (tokenbucket.go 62-64, ratelimit.go 32-33); elsewhere the
\* cancellation is only recorded in the context.
RLCancel(p) ==
    /\ rl[p].pc \in {"try", "sleep", "call"}
    /\ ~rl[p].cancelled
    /\ rl' = [rl EXCEPT ![p] =
               IF rl[p].pc = "sleep"
               THEN [@ EXCEPT !.cancelled = TRUE, !.inWait = TRUE, !.pc = "ctxerr"]
               ELSE [@ EXCEPT !.cancelled = TRUE]]
    /\ UNCHANGED <<now, limiter, tb, tbHist, mi, rlStarted>>
    /\ UNCHANGED nonRL

\* The select is entered with a context that is already cancelled: ctx.Done()
\* is ready (the timer may be ready as well, then RLTimer can win).
RLCtxDone(p) ==
    /\ rl[p].pc = "sleep"
    /\ rl[p].cancelled
    /\ rl' = [rl EXCEPT ![p] = [@ EXCEPT !.pc = "ctxerr"]]
    /\ UNCHANGED <<now, limiter, tb, tbHist, mi, rlStarted>>
    /\ UNCHANGED nonRL

\* `qs, err := m.P.Fetch(ctx, symbols)` returns (ratelimit.go 39).
MIEnd(p) ==
    /\ limiter = "mi"
    /\ rl[p].pc = "call"
    /\ rl' = [rl EXCEPT ![p] = [@ EXCEPT !.pc = "after"]]
    /\ mi' = [mi EXCEPT !.ended = TRUE, !.endT = now]
    /\ UNCHANGED <<now, limiter, tb, tbHist, rlStarted>>
    /\ UNCHANGED nonRL

\* `m.last = time.Now()` under m.mu (ratelimit.go 40-44).
MISetLast(p) ==
    /\ limiter = "mi"
    /\ rl[p].pc = "after"
    /\ rl' = [rl EXCEPT ![p] = [@ EXCEPT !.pc = "done"]]
    /\ mi' = [mi EXCEPT !.lastSet = TRUE, !.last = now]
    /\ UNCHANGED <<now, limiter, tb, tbHist, rlStarted>>
    /\ UNCHANGED nonRL

\* Fetch has returned; the goroutine is free for another call.
RLReturn(p) ==
    /\ rl[p].pc \in {"done", "ctxerr"}
    /\ rl' = [rl EXCEPT ![p] = IdleCall]
    /\ UNCHANGED <<now, limiter, tb, tbHist, mi, rlStarted>>
    /\ UNCHANGED nonRL

InitRLCalls ==
    /\ tbHist = [grants |-> <<>>, clamped |-> FALSE]
    /\ mi = [lastSet |-> FALSE, last |-> 0, ended |-> FALSE, endT |-> 0]
    /\ rlStarted = 0
    /\ rl = [p \in RProcs |-> IdleCall]

\* Time passes.
RLTick ==
    /\ now < RLMaxTime
    /\ now' = now + 1
    /\ UNCHANGED rlVars
    /\ UNCHANGED nonRL

(***************************************************************************)
(* Claims about the rate limiters.  tbHist.grants lists the times at which *)
(* the bucket granted a token; a call's record tells whether it was        *)
(* cancelled while blocked in the select (inWait), whether it called the   *)
(* wrapped provider (invoked) and how many tokens it took (consumed).      *)
(***************************************************************************)
Burst == tb.capacity \div TicksPerToken

\* C5: no call has to wait before the bucket has granted as many tokens as
\* its capacity C, and the (C+1)-th grant comes no earlier than 1/rate after
\* the first one; so when the first C are granted at one instant, it comes
\* no earlier than 1/rate after them.
C5_BurstThenWait ==
    limiter = "tb" =>
        /\ \A p \in RProcs : rl[p].slept => rl[p].grantsAtSleep >= Burst
        /\ Len(tbHist.grants) > Burst =>
              tbHist.grants[Burst + 1] >= tbHist.grants[1] + TicksPerToken

\* C5 witness: a bucket of capacity 2 granted two tokens at one instant and
\* then a third.
C5_Witness ==
    /\ limiter = "tb"
    /\ Burst = 2
    /\ Len(tbHist.grants) = 3
    /\ tbHist.grants[1] = tbHist.grants[2]

\* C6: the tokens of the bucket are always between 0 and its capacity.
C6_TokensInRange ==
    /\ 0 <= tb.tokens
    /\ tb.tokens <= tb.capacity

\* C6 witness: a refill that had to be clamped, followed by a grant.
C6_Witness ==
    /\ limiter = "tb"
    /\ tbHist.clamped
    /\ tb.tokens < tb.capacity

\* C29: whatever the interleaving of the waiting goroutines, the grants in
\* any span of time number at most capacity + rate * (length of the span),
\* and every grant has taken a token of its own: what was granted and what
\* is left in the bucket is no more than the bucket started with plus what
\* the elapsed time refilled.  (Tokens are counted in ticks: one token is
\* TicksPerToken ticks of refill.)
C29_GrantsBoundedBySpan ==
    limiter = "tb" =>
        /\ \A i, j \in 1..Len(tbHist.grants) :
              i <= j =>
                 (j - i + 1) * TicksPerToken
                    <= tb.capacity + (tbHist.grants[j] - tbHist.grants[i])
        /\ Len(tbHist.grants) * TicksPerToken + tb.tokens <= tb.capacity + tb.last

\* Two goroutines were granted, after sleeping, as many tokens as a span
\* allows: more than the capacity, with the bound reached.
C29_Witness ==
    /\ limiter = "tb"
    /\ \A p \in RProcs : rl[p].slept /\ rl[p].consumed > 0
    /\ \E i, j \in 1..Len(tbHist.grants) :
          /\ j - i + 1 > Burst
          /\ (j - i + 1) * TicksPerToken
                = tb.capacity + (tbHist.grants[j] - tbHist.grants[i])

\* C7: every call of the wrapped provider made through a MinInterval begins
\* at least Interval after the previous call of the wrapped provider ended.
C7_MinIntervalSpacing ==
    limiter = "mi" =>
        \A p \in RProcs :
            (rl[p].invoked /\ rl[p].hasPrev) => rl[p].gap >= Interval

\* C8: a call cancelled while its rate limiter was waiting returns the
\* context's error, has not called the wrapped provider and took no token.
C8_CancelWhileWaiting ==
    \A p \in RProcs :
        rl[p].inWait =>
            /\ rl[p].pc = "ctxerr"
            /\ ~rl[p].invoked
            /\ rl[p].consumed = 0

\* C8 witness: a call on an empty bucket was cancelled while it waited.
C8_Witness ==
    \E p \in RProcs :
        /\ limiter = "tb"
        /\ rl[p].inWait
        /\ rl[p].pc = "ctxerr"
        /\ Len(tbHist.grants) >= Burst

\* The limiter as built by the callers: a TokenBucket of some burst, or a
\* MinInterval (then the bucket is not used).
InitRL ==
    /\ \E kind \in {"tb", "mi"}, burst \in 0..MaxBurst :
          /\ kind = "mi" => burst = 0
          /\ limiter = kind
          /\ tb = NewTokenBucket(burst, 0)
    /\ InitRLCalls

\* The component at rest, for the specifications of the other components.
RestRL ==
    /\ limiter = "mi"
    /\ tb = NewTokenBucket(0, 0)
    /\ InitRLCalls

NextRL ==
    \/ \E p \in RProcs : TBWait(p)
    \/ \E p \in RProcs : MIGate(p)
    \/ \E p \in RProcs : RLTimer(p)
    \/ \E p \in RProcs : RLCancel(p)
    \/ \E p \in RProcs : RLCtxDone(p)
    \/ \E p \in RProcs : MIEnd(p)
    \/ \E p \in RProcs : MISetLast(p)
    \/ \E p \in RProcs : RLReturn(p)
    \/ RLTick

(***************************************************************************)
(* fetchSplit (cmd/steamdt_dump/main.go)                                   *)
(*                                                                         *)
(* The names of the batch are 1..n, in their sorted order; every sub-batch *)
(* is a slice names[lo..hi]. The recursion is an explicit stack of frames. *)
(* An entry of the upstream's answer is represented by its name.           *)
(***************************************************************************)
MaxBatch == 3       \* longest batch given to fetchSplit
MaxRetriesCap == 1  \* largest maxRetries tried
MaxLimit == 2       \* largest size limit K of the size-limited upstream

\* What doReq can come back with: an HTTP status, or a transport error
\* (no status).
StatusCodes == {200, 400, 413, 429, 503, 403}
Responses == [http : {TRUE}, code : StatusCodes] \cup {[http |-> FALSE, code |-> 0]}

NoError == [isErr |-> FALSE, http |-> FALSE, code |-> 0]
ErrorOf(r) == [isErr |-> TRUE, http |-> r.http, code |-> r.code]

\* doReq: nil error for a 2xx status, *httpStatusErr for any other status,
\* a plain error when hc.Do fails.
ReqOk(r) == r.http /\ r.code >= 200 /\ r.code < 300

\* `errorsAs(err, &hs) && (hs.code == 400 || hs.code == 413)`
IsSplit(r) == r.http /\ (r.code = 400 \/ r.code = 413)

IsTransientOrOther(r) == ~ReqOk(r) /\ ~IsSplit(r)

\* `errorsAs(err, &hs) && (hs.code == 429 || (hs.code >= 500 && hs.code < 600))`
IsTransient(r) == r.http /\ (r.code = 429 \/ (r.code >= 500 /\ r.code < 600))

\* A mutant of RetriesLeft: one retry too many.
RetriesLeftInclusive(f) == f.attempt <= spCfg.maxRetries

\* `if attempt < maxRetries`
RetriesLeft(f) == f.attempt < spCfg.maxRetries

Frame(lo, hi) == [lo |-> lo, hi |-> hi, attempt |-> 0, pc |-> "req",
                  lData |-> <<>>, lErr |-> NoError]
FrameLen(f) == f.hi - f.lo + 1

\* A mutant of Mid: the midpoint is rounded up.
MidUp(len) == (len + 1) \div 2

\* `mid := len(names) / 2`
Mid(len) == len \div 2

\* `left, right := names[:mid], names[mid:]`
LeftHalf(f) == Frame(f.lo, f.lo + Mid(FrameLen(f)) - 1)
RightHalf(f) == Frame(f.lo + Mid(FrameLen(f)), f.hi)

\* The entries of names[lo..hi].
EntriesOf(lo, hi) == [i \in 1..(hi - lo + 1) |-> lo + i - 1]

\* A mutant of JoinHalves: the halves are joined in the wrong order.
JoinHalvesSwapped(lData, rData) == rData \o lData

\* `append(lData, rData...)`
JoinHalves(lData, rData) == lData \o rData

Pop(st) == SubSeq(st, 1, Len(st) - 1)
Top(st) == st[Len(st)]

\* A call of fetchSplit returns (data, err) to its caller: the caller goes
\* on to the right half, or joins the halves and returns in turn
\* (main.go 159-163). `st` is the stack below the call that returns.
RECURSIVE Deliver(_, _, _)
Deliver(st, data, err) ==
    IF st = <<>>
    THEN [stack |-> <<>>, done |-> TRUE, data |-> data, err |-> err]
    ELSE LET f == Top(st) IN
         IF f.pc = "left"
         THEN [stack |-> Pop(st) \o <<[f EXCEPT !.pc = "right", !.lData = data,
                                                !.lErr = err],
                                      RightHalf(f)>>,
               done |-> FALSE, data |-> <<>>, err |-> NoError]
         ELSE IF f.lErr.isErr THEN Deliver(Pop(st), <<>>, f.lErr)
         ELSE IF err.isErr THEN Deliver(Pop(st), <<>>, err)
         ELSE Deliver(Pop(st), JoinHalves(f.lData, data), NoError)

\* What the upstream may answer to a batch of `len` names: anything, or, for
\* the upstream with size limit K, a 400/413 exactly for the larger batches.
Answers(len) ==
    IF spCfg.limit = 0 THEN Responses
    ELSE IF len > spCfg.limit
         THEN {[http |-> TRUE, code |-> 400], [http |-> TRUE, code |-> 413]}
         ELSE {[http |-> TRUE, code |-> 200]}

Batches == {b \in (1..MaxBatch) \X (1..MaxBatch) : b[1] <= b[2]}

\* An answer that is neither a success, nor the 400/413 that splits, nor
\* the 429/5xx that is retried: hc.Do failed (transport, cancelled context),
\* the body did not decode, or the status is another one.
IsOther(r) ==
    \/ ~r.http
    \/ /\ r.code \notin {400, 413, 429}
       /\ r.code \div 100 \notin {2, 5}

\* The request of the running call is made and answered: what is observed.
Observe(f, r) ==
    [spHist EXCEPT
        !.reqs[<<f.lo, f.hi>>] = @ + 1,
        !.okSizes = IF ReqOk(r) THEN @ \cup {FrameLen(f)} ELSE @,
        !.bisected = IF IsSplit(r) /\ FrameLen(f) > 1 THEN @ \cup {<<f.lo, f.hi>>} ELSE @,
        !.skipped = IF IsSplit(r) /\ FrameLen(f) <= 1 THEN @ \cup {f.lo} ELSE @,
        !.again = @ \/ (FrameLen(f) = 1 /\ f.lo \in spHist.skipped),
        !.fetched = IF ReqOk(r) THEN @ \cup (f.lo..f.hi) ELSE @,
        !.last = [lo |-> f.lo, hi |-> f.hi, attempt |-> f.attempt, resp |-> r],
        !.other = IF IsOther(r)
                  THEN @ \cup {[lo |-> f.lo, hi |-> f.hi, attempt |-> f.attempt, resp |-> r]}
                  ELSE @,
        !.clean = @ /\ (ReqOk(r) \/ IsSplit(r))]

Running == ~sp.done /\ sp.stack # <<>> /\ Top(sp.stack).pc = "req"

\* doReq succeeds: `return data, nil` (main.go 144-147).
SplitOk ==
    /\ Running
    /\ LET f == Top(sp.stack) IN
       \E r \in Answers(FrameLen(f)) :
          /\ ReqOk(r)
          /\ sp' = Deliver(Pop(sp.stack), EntriesOf(f.lo, f.hi), NoError)
          /\ spHist' = Observe(f, r)
    /\ UNCHANGED spCfg
    /\ UNCHANGED nonSplit

\* 400/413 for a batch of several names: bisect, fetch the left half
\* (main.go 151, 157-159).
SplitBisect ==
    /\ Running
    /\ LET f == Top(sp.stack) IN
       \E r \in Answers(FrameLen(f)) :
          /\ IsSplit(r)
          /\ ~(FrameLen(f) <= 1)
          /\ sp' = [sp EXCEPT !.stack = Pop(sp.stack)
                                \o <<[f EXCEPT !.pc = "left"], LeftHalf(f)>>]
          /\ spHist' = Observe(f, r)
    /\ UNCHANGED spCfg
    /\ UNCHANGED nonSplit

\* 400/413 for a batch of one name: "skip problematic symbol",
\* `return nil, nil` (main.go 152-156).
SplitSkip ==
    /\ Running
    /\ LET f == Top(sp.stack) IN
       \E r \in Answers(FrameLen(f)) :
          /\ IsSplit(r)
          /\ FrameLen(f) <= 1
          /\ sp' = Deliver(Pop(sp.stack), <<>>, NoError)
          /\ spHist' = Observe(f, r)
    /\ UNCHANGED spCfg
    /\ UNCHANGED nonSplit

\* 429/5xx with retries left: back off and send the same batch again
\* (main.go 166-172).
SplitRetry ==
    /\ Running
    /\ LET f == Top(sp.stack) IN
       \E r \in Answers(FrameLen(f)) :
          /\ ~IsSplit(r) /\ IsTransient(r)
          /\ RetriesLeft(f)
          /\ sp' = [sp EXCEPT !.stack = Pop(sp.stack)
                                \o <<[f EXCEPT !.attempt = @ + 1]>>]
          /\ spHist' = Observe(f, r)
    /\ UNCHANGED spCfg
    /\ UNCHANGED nonSplit

\* Any other failure: `return nil, err` (main.go 175-176).
SplitFail ==
    /\ Running
    /\ LET f == Top(sp.stack) IN
       \E r \in Answers(FrameLen(f)) :
          /\ ~ReqOk(r) /\ ~IsSplit(r)
          /\ ~(IsTransient(r) /\ RetriesLeft(f))
          /\ sp' = Deliver(Pop(sp.stack), <<>>, ErrorOf(r))
          /\ spHist' = Observe(f, r)
    /\ UNCHANGED spCfg
    /\ UNCHANGED nonSplit

InitSplitRun(n) ==
    /\ sp = [stack |-> <<Frame(1, n)>>, done |-> FALSE, data |-> <<>>, err |-> NoError]
    /\ spHist = [reqs |-> [b \in Batches |-> 0], okSizes |-> {}, bisected |-> {},
                 skipped |-> {}, again |-> FALSE, clean |-> TRUE, fetched |-> {},
                 other |-> {},
                 last |-> [lo |-> 0, hi |-> 0, attempt |-> 0,
                           resp |-> [http |-> FALSE, code |-> 0]]]

\* fetchSplit is called by a worker with a batch of 1..MaxBatch names.
InitSplit ==
    \E n \in 1..MaxBatch, k \in 0..MaxLimit, m \in 0..MaxRetriesCap :
        /\ spCfg = [n |-> n, limit |-> k, maxRetries |-> m]
        /\ InitSplitRun(n)

\* The component at rest, for the specifications of the other components.
RestSplit ==
    /\ spCfg = [n |-> 1, limit |-> 1, maxRetries |-> 0]
    /\ InitSplitRun(1)

NextSplit ==
    \/ SplitOk
    \/ SplitBisect
    \/ SplitSkip
    \/ SplitRetry
    \/ SplitFail

(***************************************************************************)
(* Claims about fetchSplit                                                 *)
(***************************************************************************)
Halved(b) == <<b[1], b[1] + ((b[2] - b[1] + 1) \div 2) - 1>>
OtherHalf(b) == <<b[1] + ((b[2] - b[1] + 1) \div 2), b[2]>>
Surviving == SelectSeq(EntriesOf(1, spCfg.n), LAMBDA x : x \notin spHist.skipped)

\* C9: against the upstream that rejects with 400/413 exactly the batches
\* larger than K (K >= 1) and answers the others with the entries of their
\* names, only batches of size <= K are answered successfully, and the call
\* returns without error the entries of all names of the batch, each once, in
\* the original order of the names.
C9_SplitConvergesToLimit ==
    spCfg.limit >= 1 =>
        /\ \A size \in spHist.okSizes : size <= spCfg.limit
        /\ sp.done => /\ ~sp.err.isErr
                      /\ sp.data = EntriesOf(1, spCfg.n)

\* C9 happens: a batch more than twice the limit was bisected twice and
\* came back complete.
C9_Witness ==
    /\ spCfg.limit >= 1
    /\ spCfg.n > 2 * spCfg.limit
    /\ sp.done
    /\ Cardinality(spHist.bisected) >= 2
    /\ spHist.okSizes # {}
    /\ sp.data = EntriesOf(1, spCfg.n)

\* C10: a batch rejected with 400 or 413 is bisected at len/2 and each half
\* is fetched by a recursive call (the running sub-call is always the lower
\* or the upper half of its caller's batch, and once the call is over both
\* halves of every bisected batch were requested); a batch of one name
\* rejected this way yields no entries and no error and is never requested
\* again.
C10_BisectOrSkip ==
    /\ \A i \in 2..Len(sp.stack) :
          LET parent == sp.stack[i - 1]
              child == sp.stack[i]
              b == <<parent.lo, parent.hi>>
          IN /\ b \in spHist.bisected
             /\ parent.pc = "left" => <<child.lo, child.hi>> = Halved(b)
             /\ parent.pc = "right" => <<child.lo, child.hi>> = OtherHalf(b)
             /\ parent.pc # "req"
    /\ \A b \in spHist.bisected :
          /\ b[2] > b[1]
          /\ spHist.reqs[Halved(b)] > 0 \/ (~sp.done /\ Top(sp.stack).pc = "req")
          /\ sp.done => spHist.reqs[Halved(b)] > 0 /\ spHist.reqs[OtherHalf(b)] > 0
    /\ ~spHist.again
    /\ sp.done /\ spHist.clean => ~sp.err.isErr
    /\ sp.done /\ ~sp.err.isErr => sp.data = Surviving

\* C10 happens: a batch was bisected, one of its names was skipped, and the
\* call returned the other entries without error.
C10_Witness ==
    /\ sp.done
    /\ spHist.bisected # {}
    /\ spHist.skipped # {}
    /\ ~sp.err.isErr
    /\ sp.data # <<>>
    /\ sp.data = Surviving

Asked == spHist.last.lo > 0
LastBatch == <<spHist.last.lo, spHist.last.hi>>
LastTransient == Asked /\ ~IsSplit(spHist.last.resp) /\ IsTransient(spHist.last.resp)

\* C11: after a 429/5xx answer with retries left, the call that runs next is
\* the same call on the same batch (same bounds, not bisected, one more
\* attempt); no batch is requested more than maxRetries+1 times; and a 429/5xx
\* answer to the request number maxRetries+1 ends the call on that batch with
\* the error of that last answer (seen as the result of the whole call, or as
\* the left-half error kept by the caller).
C11_RetrySameBatchUpToBudget ==
    /\ \A b \in Batches : spHist.reqs[b] <= spCfg.maxRetries + 1
    /\ \A i \in 1..Len(sp.stack) : sp.stack[i].attempt <= spCfg.maxRetries
    /\ LastTransient /\ spHist.last.attempt < spCfg.maxRetries =>
          /\ ~sp.done
          /\ Top(sp.stack).pc = "req"
          /\ <<Top(sp.stack).lo, Top(sp.stack).hi>> = LastBatch
          /\ Top(sp.stack).attempt = spHist.last.attempt + 1
          /\ spHist.reqs[LastBatch] = Top(sp.stack).attempt
          /\ LastBatch \notin spHist.bisected
    /\ LastTransient /\ spHist.last.attempt >= spCfg.maxRetries =>
          /\ spHist.reqs[LastBatch] = spCfg.maxRetries + 1
          /\ LastBatch = <<1, spCfg.n>> =>
                sp.done /\ sp.data = <<>> /\ sp.err = ErrorOf(spHist.last.resp)
          /\ (~sp.done /\ Len(sp.stack) >= 2
              /\ LastBatch = Halved(<<sp.stack[Len(sp.stack) - 1].lo,
                                      sp.stack[Len(sp.stack) - 1].hi>>)) =>
                sp.stack[Len(sp.stack) - 1].lErr = ErrorOf(spHist.last.resp)

\* C11 happens: a batch was answered 429/5xx maxRetries+1 times (at least
\* one retry), and the call returned that last error.
C11_Witness ==
    /\ spCfg.maxRetries >= 1
    /\ sp.done
    /\ LastTransient
    /\ spHist.reqs[<<1, spCfg.n>>] = spCfg.maxRetries + 1
    /\ sp.err = ErrorOf(spHist.last.resp)

\* C12: once the call is over, every entry that the upstream delivered for a
\* sub-batch is part of the result, also when a sibling sub-batch ended in an
\* error.
C12_SiblingDataKept ==
    sp.done => \A x \in spHist.fetched : \E i \in 1..Len(sp.data) : sp.data[i] = x

\* C32: a batch whose request failed otherwise than by a 400/413 or a
\* 429/5xx status is neither requested again nor split, and its call has
\* returned: answered so at its first request, it was requested exactly
\* once; when it is the whole batch, fetchSplit has returned that error.
C32_OtherFailureIsTerminal ==
    \A t \in spHist.other :
        /\ spHist.reqs[<<t.lo, t.hi>>] = t.attempt + 1
        /\ <<t.lo, t.hi>> \notin spHist.bisected
        /\ \A k \in 1..Len(sp.stack) :
              ~(sp.stack[k].lo = t.lo /\ sp.stack[k].hi = t.hi)
        /\ (t.lo = 1 /\ t.hi = spCfg.n) =>
              (sp.done /\ sp.data = <<>> /\ sp.err = ErrorOf(t.resp))

\* A transport failure and a 403, each at the first request of a sub-batch.
C32_Witness ==
    /\ sp.done
    /\ \E t \in spHist.other : ~t.resp.http /\ t.attempt = 0
    /\ \E t \in spHist.other : t.resp.code = 403 /\ t.attempt = 0
                                  /\ spHist.reqs[<<t.lo, t.hi>>] = 1

(***************************************************************************)
(* skinstablexyz Provider (unnamed/part_000, the version with singleflight)*)
(*                                                                         *)
(* A payload (the items map of one response) is identified by the number   *)
(* of the request to its site that produced it; the quotes built from a    *)
(* snapshot are identified by the snapshot's site and payload.             *)
(***************************************************************************)
SSMaxCalls == 2     \* Fetch calls started
SSMaxTime == 2      \* last tick of the clock

Sites == <<1, 2>>   \* p.cfg.Sites, in order
SiteIds == {Sites[i] : i \in 1..Len(Sites)}
SProcs == {1, 2}    \* goroutines calling Fetch
ItemsCacheTTL == 1  \* ttl of fetchSite, in ticks

NoSiteCache == [ok |-> FALSE, until |-> 0, items |-> 0]
SiteCache(payload, until) == [ok |-> TRUE, until |-> until, items |-> payload]

SSNoErr == [isErr |-> FALSE, site |-> 0, n |-> 0]
\* The error of request number n to `site`.
SSErr(site, n) == [isErr |-> TRUE, site |-> site, n |-> n]
\* `fmt.Errorf("skinstable: no data from any site")`
SSNoData == [isErr |-> TRUE, site |-> 0, n |-> 0]

NoFlight == [active |-> FALSE, id |-> 0]
NoResult == [items |-> 0, until |-> 0, err |-> SSNoErr]

\* `expired := !ok || now.After(sc.until)`
SSExpired(sc, t) == ~sc.ok \/ t > sc.until

IdleSS == [pc |-> "idle", now0 |-> 0, idx |-> 1, anyValid |-> FALSE,
           lastErr |-> SSNoErr, call |-> 0, shared |-> FALSE, v |-> NoResult,
           out |-> <<>>, err |-> SSNoErr,
           st |-> [s \in SiteIds |-> "none"], seen |-> [s \in SiteIds |-> 0]]

SiteOf(f) == Sites[f.idx]

\* The end of one round of `for _, site := range p.cfg.Sites`.
NextSite(f) ==
    IF f.idx < Len(Sites) THEN [f EXCEPT !.idx = @ + 1, !.pc = "check"]
    ELSE [f EXCEPT !.pc = "finish"]

\* `for _, site := range p.cfg.Sites { if sc, ok := p.cache[site]; ok {...} }`
\* and the quotes built from the snapshots.
RECURSIVE Snapshots(_, _)
Snapshots(cache, i) ==
    IF i > Len(Sites) THEN <<>>
    ELSE (IF cache[Sites[i]].ok
          THEN <<[site |-> Sites[i], items |-> cache[Sites[i]].items]>>
          ELSE <<>>) \o Snapshots(cache, i + 1)

SSNoneDone == \A q \in SProcs : ssCall[q].pc # "done"

\* Fetch begins: the config guards, `now := time.Now()`, the lazy init of
\* the cache (part_000 194-213).
SSStart(p) ==
    /\ SSNoneDone
    /\ ssCall[p].pc = "idle"
    /\ \A q \in SProcs : q < p => ssCall[q].pc # "idle"
    /\ ssStarted < SSMaxCalls
    /\ ssStarted' = ssStarted + 1
    /\ ssCall' = [ssCall EXCEPT ![p] = [IdleSS EXCEPT !.pc = "check", !.now0 = now]]
    /\ UNCHANGED <<now, ssCache, ssFlight, ssReqs>>
    /\ UNCHANGED nonSS

\* The snapshot of the site's entry under the read lock (part_000 217-226).
SSCheck(p) ==
    /\ SSNoneDone
    /\ ssCall[p].pc = "check"
    /\ LET f == ssCall[p]
           site == SiteOf(f)
           sc == ssCache[site]
       IN  ssCall' = [ssCall EXCEPT ![p] =
                IF SSExpired(sc, f.now0)
                THEN [f EXCEPT !.pc = "do", !.seen[site] = sc.items]
                ELSE NextSite([f EXCEPT !.anyValid = TRUE, !.st[site] = "valid"])]
    /\ UNCHANGED <<now, ssCache, ssFlight, ssReqs, ssStarted>>
    /\ UNCHANGED nonSS

\* A mutant of SSDo: the caller never joins the call in flight.
SSDoAlone(p) ==
    /\ SSNoneDone
    /\ ssCall[p].pc = "do"
    /\ LET f == ssCall[p]
           site == SiteOf(f)
       IN  /\ ssReqs' = [ssReqs EXCEPT ![site] = @ + 1]
           /\ ssFlight' = [ssFlight EXCEPT ![site] = [active |-> TRUE, id |-> ssReqs'[site]]]
           /\ ssCall' = [ssCall EXCEPT ![p] = [f EXCEPT !.pc = "fetching", !.shared = FALSE,
                                               !.call = ssReqs'[site]]]
    /\ UNCHANGED <<now, ssCache, ssStarted>>
    /\ UNCHANGED nonSS

\* `p.sf.Do(site, ...)`: join the call in flight for the site, or register
\* a new one and start fetchSite (part_000 234-240).
SSDo(p) ==
    /\ SSNoneDone
    /\ ssCall[p].pc = "do"
    /\ LET f == ssCall[p]
           site == SiteOf(f)
       IN  IF ssFlight[site].active
           THEN /\ ssCall' = [ssCall EXCEPT ![p] = [f EXCEPT !.pc = "wait", !.shared = TRUE,
                                                    !.call = ssFlight[site].id]]
                /\ UNCHANGED <<ssFlight, ssReqs>>
           ELSE /\ ssReqs' = [ssReqs EXCEPT ![site] = @ + 1]
                /\ ssFlight' = [ssFlight EXCEPT ![site] = [active |-> TRUE, id |-> ssReqs'[site]]]
                /\ ssCall' = [ssCall EXCEPT ![p] = [f EXCEPT !.pc = "fetching", !.shared = FALSE,
                                                    !.call = ssReqs'[site]]]
    /\ UNCHANGED <<now, ssCache, ssStarted>>
    /\ UNCHANGED nonSS

\* The call in flight settles with result v: the registry entry is removed,
\* the caller that ran it and every caller that joined it receive v.
Settle(p, v) ==
    LET site == SiteOf(ssCall[p]) IN
    /\ ssFlight' = [ssFlight EXCEPT ![site] = NoFlight]
    /\ ssCall' = [q \in SProcs |->
                IF q = p \/ (ssCall[q].pc = "wait" /\ SiteOf(ssCall[q]) = site)
                THEN [ssCall[q] EXCEPT !.pc = "got", !.v = v]
                ELSE ssCall[q]]

\* fetchSite returns a payload: `return body.Items, time.Now().Add(ttl), nil`
\* (part_000 237-239, 326-328).
SSFetchSiteOk(p) ==
    /\ SSNoneDone
    /\ ssCall[p].pc = "fetching"
    /\ Settle(p, [items |-> ssCall[p].call, until |-> now + ItemsCacheTTL, err |-> SSNoErr])
    /\ UNCHANGED <<now, ssCache, ssReqs, ssStarted>>
    /\ UNCHANGED nonSS

\* fetchSite fails (transport error, status, decoding, the 7 s timeout)
\* (part_000 235-238).
SSFetchSiteFail(p) ==
    /\ SSNoneDone
    /\ ssCall[p].pc = "fetching"
    /\ Settle(p, [items |-> 0, until |-> 0, err |-> SSErr(SiteOf(ssCall[p]), ssCall[p].call)])
    /\ UNCHANGED <<now, ssCache, ssReqs, ssStarted>>
    /\ UNCHANGED nonSS

CommitAlways(cache, site, v, t) ==
    [cache EXCEPT ![site] = SiteCache(v.items, v.until)]

\* `if !ok2 || time.Now().After(sc2.until) { p.cache[site] = siteCache{...} }`
Commit(cache, site, v, t) ==
    IF SSExpired(cache[site], t)
    THEN [cache EXCEPT ![site] = SiteCache(v.items, v.until)]
    ELSE cache

\* After sf.Do: record the error, or write the snapshot if the entry is
\* still missing or expired at time.Now() (part_000 241-254).
SSGot(p) ==
    /\ SSNoneDone
    /\ ssCall[p].pc = "got"
    /\ LET f == ssCall[p]
           site == SiteOf(f)
       IN  IF f.v.err.isErr
           THEN /\ ssCall' = [ssCall EXCEPT ![p] =
                        NextSite([f EXCEPT !.lastErr = f.v.err, !.st[site] = "failed"])]
                /\ UNCHANGED ssCache
           ELSE /\ ssCache' = Commit(ssCache, site, f.v, now)
                /\ ssCall' = [ssCall EXCEPT ![p] =
                        NextSite([f EXCEPT !.anyValid = TRUE, !.st[site] = "refreshed"])]
    /\ UNCHANGED <<now, ssFlight, ssReqs, ssStarted>>
    /\ UNCHANGED nonSS

\* A mutant of SSFinish: any failed refresh fails the Fetch.
SSFinishStrict(p) ==
    /\ SSNoneDone
    /\ ssCall[p].pc = "finish"
    /\ LET f == ssCall[p] IN
       ssCall' = [ssCall EXCEPT ![p] =
                IF ~f.anyValid \/ f.lastErr.isErr
                THEN [f EXCEPT !.pc = "done",
                               !.err = IF f.lastErr.isErr THEN f.lastErr ELSE SSNoData]
                ELSE [f EXCEPT !.pc = "done", !.out = Snapshots(ssCache, 1)]]
    /\ UNCHANGED <<now, ssCache, ssFlight, ssReqs, ssStarted>>
    /\ UNCHANGED nonSS

\* After the loop: the error return, or the snapshots and the quotes built
\* from them (part_000 258-296).
SSFinish(p) ==
    /\ SSNoneDone
    /\ ssCall[p].pc = "finish"
    /\ LET f == ssCall[p] IN
       ssCall' = [ssCall EXCEPT ![p] =
                IF ~f.anyValid
                THEN [f EXCEPT !.pc = "done",
                               !.err = IF f.lastErr.isErr THEN f.lastErr ELSE SSNoData]
                ELSE [f EXCEPT !.pc = "done", !.out = Snapshots(ssCache, 1)]]
    /\ UNCHANGED <<now, ssCache, ssFlight, ssReqs, ssStarted>>
    /\ UNCHANGED nonSS

\* The caller has its result; the goroutine is free for another Fetch.
SSReturn(p) ==
    /\ ssCall[p].pc = "done"
    /\ ssCall' = [ssCall EXCEPT ![p] = IdleSS]
    /\ UNCHANGED <<now, ssCache, ssFlight, ssReqs, ssStarted>>
    /\ UNCHANGED nonSS

SSTick ==
    /\ SSNoneDone
    /\ now < SSMaxTime
    /\ now' = now + 1
    /\ UNCHANGED ssVars
    /\ UNCHANGED nonSS

\* `New` leaves the cache nil and the singleflight group empty.
InitSS ==
    /\ ssCache = [s \in SiteIds |-> NoSiteCache]
    /\ ssFlight = [s \in SiteIds |-> NoFlight]
    /\ ssReqs = [s \in SiteIds |-> 0]
    /\ ssStarted = 0
    /\ ssCall = [p \in SProcs |-> IdleSS]

\* The component at rest, for the specifications of the other components.
RestSS == InitSS

NextSS ==
    \/ \E p \in SProcs : SSStart(p)
    \/ \E p \in SProcs : SSCheck(p)
    \/ \E p \in SProcs : SSDo(p)
    \/ \E p \in SProcs : SSFetchSiteOk(p)
    \/ \E p \in SProcs : SSFetchSiteFail(p)
    \/ \E p \in SProcs : SSGot(p)
    \/ \E p \in SProcs : SSFinish(p)
    \/ \E p \in SProcs : SSReturn(p)
    \/ SSTick

(***************************************************************************)
(* Claims about the skinstablexyz Provider                                 *)
(***************************************************************************)
Fetching(s) == {p \in SProcs : ssCall[p].pc = "fetching" /\ SiteOf(ssCall[p]) = s}
Waiting(s) == {p \in SProcs : ssCall[p].pc = "wait" /\ SiteOf(ssCall[p]) = s}
Got(s) == {p \in SProcs : ssCall[p].pc = "got" /\ SiteOf(ssCall[p]) = s}
LastSite == Sites[Len(Sites)]

C14_FailsOnlyIfAllSitesFail ==
    \A p \in SProcs : ssCall[p].pc = "done" =>
        LET f == ssCall[p] IN
        /\ f.err.isErr <=> \A s \in SiteIds : f.st[s] = "failed"
        /\ f.err.isErr => f.err = f.lastErr /\ f.err.site = LastSite /\ f.out = <<>>
        /\ ~f.err.isErr => f.out # <<>>

\* C14 happens: one site's refresh failed, another's succeeded, and the Fetch
\* returned quotes with a nil error.
C14_Witness ==
    \E p \in SProcs :
        /\ ssCall[p].pc = "done"
        /\ ~ssCall[p].err.isErr
        /\ ssCall[p].out # <<>>
        /\ \E s, t \in SiteIds : ssCall[p].st[s] = "failed" /\ ssCall[p].st[t] = "refreshed"

MaxPad == 1         \* most spaces put before or after a part of a source tag

UpperLetters == <<"A", "B", "C", "D", "E", "F", "G", "H", "I", "J", "K", "L", "M", "N", "O", "P", "Q", "R", "S", "T", "U", "V", "W", "X", "Y", "Z">>
LowerLetters == <<"a", "b", "c", "d", "e", "f", "g", "h", "i", "j", "k", "l", "m", "n", "o", "p", "q", "r", "s", "t", "u", "v", "w", "x", "y", "z">>
AsciiOrder == <<" ", ".">> \o <<"0", "1", "2", "3", "4", "5", "6", "7", "8", "9">>
              \o <<":">> \o UpperLetters \o LowerLetters

IndexIn(c, t) == CHOOSE k \in 1..Len(t) : t[k] = c
IsIn(c, t) == \E k \in 1..Len(t) : t[k] = c

\* strings.ToLower, strings.ToUpper
ToLowerChar(c) == IF IsIn(c, UpperLetters) THEN LowerLetters[IndexIn(c, UpperLetters)] ELSE c
ToUpperChar(c) == IF IsIn(c, LowerLetters) THEN UpperLetters[IndexIn(c, LowerLetters)] ELSE c
ToLower(str) == [i \in 1..Len(str) |-> ToLowerChar(str[i])]
ToUpper(str) == [i \in 1..Len(str) |-> ToUpperChar(str[i])]

\* strings.TrimSpace
RECURSIVE TrimLeft(_)
TrimLeft(str) == IF str # <<>> /\ Head(str) = " " THEN TrimLeft(Tail(str)) ELSE str
RECURSIVE TrimRight(_)
TrimRight(str) ==
    IF str # <<>> /\ str[Len(str)] = " " THEN TrimRight(SubSeq(str, 1, Len(str) - 1)) ELSE str
TrimSpace(str) == TrimRight(TrimLeft(str))

\* strings.Index(str, ":"), counted from 0; -1 when there is none
ColonIndex(str) ==
    IF \E k \in 1..Len(str) : str[k] = ":"
    THEN (CHOOSE k \in 1..Len(str) : str[k] = ":" /\ \A j \in 1..(k - 1) : str[j] # ":") - 1
    ELSE -1

\* strings.Split(str, ":")
RECURSIVE Split(_)
Split(str) ==
    IF ColonIndex(str) < 0 THEN <<str>>
    ELSE <<SubSeq(str, 1, ColonIndex(str))>>
         \o Split(SubSeq(str, ColonIndex(str) + 2, Len(str)))

\* The order of Go strings: bytewise lexicographic.
RECURSIVE StrLess(_, _)
StrLess(a, b) ==
    IF b = <<>> THEN FALSE
    ELSE IF a = <<>> THEN TRUE
    ELSE IF Head(a) # Head(b)
         THEN IndexIn(Head(a), AsciiOrder) < IndexIn(Head(b), AsciiOrder)
         ELSE StrLess(Tail(a), Tail(b))

StrBUFF == <<"B", "U", "F", "F">>
StrSteam == <<"S", "t", "e", "a", "m">>
StrC5GAME == <<"C", "5", "G", "A", "M", "E">>
StrCSMONEY == <<"C", "S", ".", "M", "O", "N", "E", "Y">>
StrSkinport == <<"S", "k", "i", "n", "p", "o", "r", "t">>

\* var aliasMap: spelling -> canonical market
aliasMap == {
    <<<<"b", "u", "f", "f">>, StrBUFF>>,
    <<<<"b", "u", "f", "f", ".", "1", "6", "3">>, StrBUFF>>,
    <<<<"b", "u", "f", "f", "1", "6", "3">>, StrBUFF>>,
    <<<<"s", "t", "e", "a", "m">>, StrSteam>>,
    <<<<"c", "5">>, StrC5GAME>>,
    <<<<"c", "5", "g", "a", "m", "e">>, StrC5GAME>>,
    <<<<"c", "s", "m", "o", "n", "e", "y">>, StrCSMONEY>>,
    <<<<"c", "s", ".", "m", "o", "n", "e", "y">>, StrCSMONEY>>,
    <<<<"s", "k", "i", "n", "p", "o", "r", "t">>, StrSkinport>> }

\* A mutant of AliasOf: the table is looked up with the spelling as given.
AliasOfAsGiven(m) ==
    IF \E a \in aliasMap : a[1] = m
    THEN (CHOOSE a \in aliasMap : a[1] = m)[2]
    ELSE m

\* `if norm, ok := aliasMap[strings.ToLower(m)]; ok { market = norm } else { market = m }`
AliasOf(m) ==
    IF \E a \in aliasMap : a[1] = ToLower(m)
    THEN (CHOOSE a \in aliasMap : a[1] = ToLower(m))[2]
    ELSE m

StrSteamdtLower == <<"s", "t", "e", "a", "m", "d", "t">>
StrPricempireLower == <<"p", "r", "i", "c", "e", "m", "p", "i", "r", "e">>
StrSkinstableLower == <<"s", "k", "i", "n", "s", "t", "a", "b", "l", "e", "x", "y", "z">>

\* The `switch lpref`: which parts are the raw market and the raw side.
RawMarket(parts) == IF Len(parts) >= 2 THEN parts[2] ELSE <<>>
RawSide(parts) ==
    LET lpref == ToLower(TrimSpace(parts[1])) IN
    IF lpref = StrPricempireLower \/ lpref = StrSkinstableLower THEN <<>>
    ELSE IF Len(parts) >= 3 THEN parts[3] ELSE <<>>

NormalizeSource(src) ==
    LET str == TrimSpace(src) IN
    IF str = <<>> THEN [market |-> <<>>, side |-> <<>>]
    ELSE LET parts == Split(str) IN
         [market |-> AliasOf(TrimSpace(RawMarket(parts))),
          side |-> ToLower(TrimSpace(RawSide(parts)))]

(***************************************************************************)
(* Source tags given to NormalizeSource: a provider prefix, a spelling of  *)
(* an alias in some letter case with spaces around it, maybe a third part. *)
(***************************************************************************)
RECURSIVE Spaces(_)
Spaces(k) == IF k = 0 THEN <<>> ELSE <<" ">> \o Spaces(k - 1)
Padded(str, l, r) == Spaces(l) \o str \o Spaces(r)

\* Letter cases of a spelling: as written, upper, lower, first letter upper,
\* and alternating.
Cased(str, mode) ==
    CASE mode = "asis" -> str
      [] mode = "upper" -> ToUpper(str)
      [] mode = "lower" -> ToLower(str)
      [] mode = "title" -> [i \in 1..Len(str) |->
                               IF i = 1 THEN ToUpperChar(str[i]) ELSE ToLowerChar(str[i])]
      [] mode = "mixed" -> [i \in 1..Len(str) |->
                               IF i % 2 = 0 THEN ToUpperChar(str[i]) ELSE ToLowerChar(str[i])]
CaseModes == {"upper", "lower", "title", "mixed"}

Prefixes == { <<"S", "t", "e", "a", "m", "D", "T">>, <<"P", "r", "i", "c", "e", "m", "p", "i", "r", "e">>, <<"S", "k", "i", "n", "s", "t", "a", "b", "l", "e", "X", "Y", "Z">>,
              <<"p", "r", "i", "c", "e", "m", "p", "i", "r", "e">>, <<"S", "K", "I", "N", "S", "T", "A", "B", "L", "E", "X", "Y", "Z">>, <<"W", "a", "x", "p", "e", "e", "r">> }
ThirdParts == { <<>>, <<":">> \o <<"s", "e", "l", "l">>, <<":">> \o <<"B", "I", "D">>,
                <<":", " ">> \o <<"A", "s", "k">> }

SourceTag(prefix, spelling, mode, l, r, third) ==
    prefix \o <<":">> \o Padded(Cased(spelling, mode), l, r) \o third

NoNorm == [market |-> <<>>, side |-> <<>>]

\* One call of NormalizeSource.
Normalize ==
    /\ ns.pc = "in"
    /\ ns' = [ns EXCEPT !.pc = "out", !.out = NormalizeSource(ns.src)]
    /\ UNCHANGED ag
    /\ UNCHANGED nonAgg

InitNorm ==
    \E prefix \in Prefixes, a \in aliasMap, mode \in CaseModes,
       l \in 0..MaxPad, r \in 0..MaxPad, third \in ThirdParts :
        ns = [pc |-> "in", src |-> SourceTag(prefix, a[1], mode, l, r, third),
              spelling |-> a[1], out |-> NoNorm]

\* The component at rest, for the specifications of the other components.
RestNorm == ns = [pc |-> "in", src |-> <<>>, spelling |-> <<>>, out |-> NoNorm]

NextNorm == Normalize

(***************************************************************************)
(* Claims about NormalizeSource                                            *)
(***************************************************************************)
Canonical(spelling) == (CHOOSE a \in aliasMap : a[1] = spelling)[2]
PrefixOf(src) == ToLower(TrimSpace(SubSeq(src, 1, ColonIndex(src))))
SidelessProvider(src) ==
    PrefixOf(src) = StrPricempireLower \/ PrefixOf(src) = StrSkinstableLower

\* C20: every spelling of the alias table, in any letter case and with
\* spaces around it, is mapped to its canonical market (BUFF, Steam, C5GAME,
\* CS.MONEY, Skinport), and a tag whose provider is Pricempire or
\* SkinstableXYZ gets an empty side, also when it has a third part.
C20_AliasesAndSidelessProviders ==
    ns.pc = "out" =>
        /\ ns.out.market = Canonical(ns.spelling)
        /\ ns.out.market \in {StrBUFF, StrSteam, StrC5GAME, StrCSMONEY, StrSkinport}
        /\ SidelessProvider(ns.src) => ns.out.side = <<>>

\* C20 happens: a padded spelling in another letter case than the table's,
\* behind a Pricempire prefix and followed by a third part, came out as the
\* canonical market with an empty side.
C20_Witness ==
    /\ ns.pc = "out"
    /\ SidelessProvider(ns.src)
    /\ Len(Split(ns.src)) >= 3
    /\ Split(ns.src)[2] # ns.spelling
    /\ TrimSpace(Split(ns.src)[2]) # Split(ns.src)[2]
    /\ ns.out.market = StrBUFF
    /\ ns.out.side = <<>>

(***************************************************************************)
(* LatestByMarket                                                          *)
(***************************************************************************)
MaxQuotes == 2      \* most quotes given to LatestByMarket

\* The clock when LatestByMarket is called, and the timestamps of quotes:
\* the zero time (0), the time of the call, and a later time.
AggNow == 1
Stamps == {0, 1, 2}

\* (Symbol, Currency) of the quotes given.
Instruments == { <<<<"A">>, "USD">>, <<<<"A">>, "EUR">>, <<<<"B">>, "USD">> }
\* Source tags of the quotes given.
AggSources == { <<"S", "t", "e", "a", "m", "D", "T", ":", "B", "U", "F", "F", ":", "s", "e", "l", "l">>,
                <<"s", "t", "e", "a", "m", "d", "t", ":", " ", "b", "u", "f", "f", "1", "6", "3", " ", ":", "B", "i", "d">>,
                <<"P", "r", "i", "c", "e", "m", "p", "i", "r", "e", ":", "B", "u", "f", "f", ".", "1", "6", "3", ":", "s", "e", "l", "l">>,
                <<"S", "k", "i", "n", "s", "t", "a", "b", "l", "e", "X", "Y", "Z", ":", "C", "S", ".", "M", "O", "N", "E", "Y">> }
\* What NormalizeSource returns for them.
Normalized == [src \in AggSources |-> NormalizeSource(src)]
\* `market, side := NormalizeSource(q.Source)`
NormOf(src) == IF src \in AggSources THEN Normalized[src] ELSE NormalizeSource(src)

\* provider.Quote; the price is the place of the quote in the first input.
AggQuote(inst, src, ts, k) ==
    [symbol |-> inst[1], currency |-> inst[2], source |-> src, receivedAt |-> ts,
     price |-> k]

\* `if idx := strings.Index(q.Source, ":"); idx > 0 {...} else {...}`
ProviderName(src) ==
    IF ColonIndex(src) > 0 THEN SubSeq(src, 1, ColonIndex(src)) ELSE src

\* A mutant of RowOf: the side is kept whatever includeSides says.
RowOfKeepSide(q, includeSides, t) ==
    [symbol |-> q.symbol,
     market |-> NormOf(q.source).market,
     side |-> NormOf(q.source).side,
     currency |-> q.currency,
     price |-> q.price,
     provider |-> ProviderName(q.source),
     receivedAt |-> IF q.receivedAt = 0 THEN t ELSE q.receivedAt]

\* The Latest built from quote q (part_007 102-126).
RowOf(q, includeSides, t) ==
    [symbol |-> q.symbol,
     market |-> NormOf(q.source).market,
     side |-> IF ~includeSides THEN <<>> ELSE NormOf(q.source).side,
     currency |-> q.currency,
     price |-> q.price,
     provider |-> ProviderName(q.source),
     receivedAt |-> IF q.receivedAt = 0 THEN t ELSE q.receivedAt]

\* A mutant of KeyOf: the currency is not part of the key.
KeyOfNoCurrency(row) == <<row.symbol, row.market, row.side>>

\* MarketKey
KeyOf(row) == <<row.symbol, row.market, row.side, row.currency>>

\* A mutant of Newer: on equal timestamps the earlier quote stays.
NewerStrict(ts, cur) == ts > cur

\* `ts.After(cur.ReceivedAt) || ts.Equal(cur.ReceivedAt)`
Newer(ts, cur) == ts > cur \/ ts = cur

\* One round of `for _, q := range quotes`: the map `latest` after quote q.
Put(latest, row) ==
    LET same == {r \in latest : KeyOf(r) = KeyOf(row)} IN
    IF same = {} THEN latest \cup {row}
    ELSE IF \A r \in same : Newer(row.receivedAt, r.receivedAt)
         THEN (latest \ same) \cup {row}
         ELSE latest

RECURSIVE Collect(_, _, _, _)
Collect(quotes, includeSides, t, k) ==
    IF k = 0 THEN {}
    ELSE Put(Collect(quotes, includeSides, t, k - 1), RowOf(quotes[k], includeSides, t))

RowLessByMarket(a, b) ==
    StrLess(a.market, b.market)

\* The `less` of sort.Slice: by symbol, then market, then side.
RowLess(a, b) ==
    IF a.symbol # b.symbol THEN StrLess(a.symbol, b.symbol)
    ELSE IF a.market # b.market THEN StrLess(a.market, b.market)
    ELSE IF a.side # b.side THEN StrLess(a.side, b.side)
    ELSE FALSE

\* What `for _, v := range latest { out = append(out, v) }` followed by
\* sort.Slice can leave: the rows in any order the map yields that `less`
\* has nothing against.
SortedOrders(rows) ==
    {out \in [1..Cardinality(rows) -> rows] :
        /\ \A i, j \in 1..Cardinality(rows) : i # j => out[i] # out[j]
        /\ \A i, j \in 1..Cardinality(rows) : i < j => ~RowLess(out[j], out[i])}

LatestByMarket(quotes, includeSides, t) ==
    SortedOrders(Collect(quotes, includeSides, t, Len(quotes)))

\* The orderings of a list of quotes.
Orderings(quotes) ==
    {[i \in 1..Len(quotes) |-> quotes[pi[i]]] :
        pi \in {f \in [1..Len(quotes) -> 1..Len(quotes)] :
                   \A i, j \in 1..Len(quotes) : i # j => f[i] # f[j]}}

\* LatestByMarket is called with the quotes.
AggRun ==
    /\ ag.pc = "in"
    /\ \E out \in LatestByMarket(ag.quotes, ag.includeSides, now) :
          ag' = [ag EXCEPT !.pc = "out", !.out = out]
    /\ UNCHANGED ns
    /\ UNCHANGED nonAgg

\* LatestByMarket is called again, with the same quotes in some order.
AggRerun ==
    /\ ag.pc = "out"
    /\ \E again \in Orderings(ag.quotes) :
       \E out \in LatestByMarket(again, ag.includeSides, now) :
          ag' = [ag EXCEPT !.pc = "both", !.again = again, !.out2 = out]
    /\ UNCHANGED ns
    /\ UNCHANGED nonAgg

AggInputs(n) ==
    {[k \in 1..n |-> AggQuote(c[k][1], c[k][2], c[k][3], k)] :
        c \in [1..n -> Instruments \X AggSources \X Stamps]}

InitAgg ==
    \E n \in 0..MaxQuotes : \E quotes \in AggInputs(n), includeSides \in BOOLEAN :
        ag = [pc |-> "in", quotes |-> quotes, includeSides |-> includeSides,
              out |-> <<>>, again |-> <<>>, out2 |-> <<>>]

\* The component at rest, for the specifications of the other components.
RestAgg == ag = [pc |-> "in", quotes |-> <<>>, includeSides |-> FALSE,
                 out |-> <<>>, again |-> <<>>, out2 |-> <<>>]

NextAgg ==
    \/ AggRun
    \/ AggRerun

\* A market name that aliasMap does not know.
StrDMarket == <<"D", "M", "a", "r", "k", "e", "t">>

\* LatestByMarket is given two quotes of one symbol and currency whose source
\* tags spell that market in two letter cases, the second with spaces around it.
InitTags ==
    \E prefix \in Prefixes, third \in ThirdParts, includeSides \in BOOLEAN :
    \E m1, m2 \in CaseModes \cup {"asis"} :
    \E l2, r2 \in 0..MaxPad :
        ag = [pc |-> "in",
              quotes |-> << AggQuote(<<<<"A">>, "USD">>,
                                     SourceTag(prefix, StrDMarket, m1, 0, 0, third),
                                     AggNow, 1),
                            AggQuote(<<<<"A">>, "USD">>,
                                     SourceTag(prefix, StrDMarket, m2, l2, r2, third),
                                     AggNow, 2) >>,
              includeSides |-> includeSides,
              out |-> <<>>, again |-> <<>>, out2 |-> <<>>]

(***************************************************************************)
(* Claims about unknown markets                                            *)
(***************************************************************************)
\* C21: two source tags whose market, unknown to the alias table, differs
\* only in letter case or in the spaces around it give the same market, so
\* their quotes (same symbol, currency and side) end in one row.
C21_UnknownMarketNormalised ==
    ag.pc # "in" =>
        /\ NormalizeSource(ag.quotes[1].source).market
             = NormalizeSource(ag.quotes[2].source).market
        /\ Len(ag.out) = 1

(***************************************************************************)
(* Claims about LatestByMarket                                             *)
(***************************************************************************)
\* What the source tags of AggSources mean: canonical market and side.
MarketOfTag(src) ==
    IF src = <<"S", "k", "i", "n", "s", "t", "a", "b", "l", "e", "X", "Y", "Z", ":", "C", "S", ".", "M", "O", "N", "E", "Y">> THEN StrCSMONEY ELSE StrBUFF
SideOfTag(src) ==
    IF src = <<"S", "t", "e", "a", "m", "D", "T", ":", "B", "U", "F", "F", ":", "s", "e", "l", "l">> THEN <<"s", "e", "l", "l">>
    ELSE IF src = <<"s", "t", "e", "a", "m", "d", "t", ":", " ", "b", "u", "f", "f", "1", "6", "3", " ", ":", "B", "i", "d">> THEN <<"b", "i", "d">>
    ELSE <<>>
ExpectedKey(q) ==
    <<q.symbol, MarketOfTag(q.source),
      IF ag.includeSides THEN SideOfTag(q.source) ELSE <<>>, q.currency>>
RowKey(r) == <<r.symbol, r.market, r.side, r.currency>>
Group(key) == {i \in 1..Len(ag.quotes) : ExpectedKey(ag.quotes[i]) = key}
\* The timestamp a quote is compared with: the time of the call for the zero
\* time.
Effective(ts) == IF ts = 0 THEN now ELSE ts
\* Quote i is the newest of a group, the later in the input on equal times.
Wins(i, group, stamp(_)) ==
    \A j \in group : \/ stamp(ag.quotes[j].receivedAt) < stamp(ag.quotes[i].receivedAt)
                     \/ /\ stamp(ag.quotes[j].receivedAt) = stamp(ag.quotes[i].receivedAt)
                        /\ j <= i
AsGiven(ts) == ts

\* C16: LatestByMarket called again on the same quotes in any order returns
\* the same rows, with the same values, in the same order.
C16_OrderIndependent ==
    ag.pc = "both" => ag.out2 = ag.out

\* C17 as stated: the row of every key carries the price and the receivedAt
\* of the quote of its group with the greatest receivedAt, the latest in the
\* input among those that share it.
C17_NewestWinsAsStated ==
    ag.pc # "in" =>
        \A k \in 1..Len(ag.out) :
            \E i \in Group(RowKey(ag.out[k])) :
                /\ Wins(i, Group(RowKey(ag.out[k])), AsGiven)
                /\ ag.out[k].price = ag.quotes[i].price
                /\ ag.out[k].receivedAt = ag.quotes[i].receivedAt

\* C17 amended: the same, with a zero receivedAt counted (and reported) as
\* the time of the call.
C17_NewestWins ==
    ag.pc # "in" =>
        \A k \in 1..Len(ag.out) :
            \E i \in Group(RowKey(ag.out[k])) :
                /\ Wins(i, Group(RowKey(ag.out[k])), Effective)
                /\ ag.out[k].price = ag.quotes[i].price
                /\ ag.out[k].receivedAt = Effective(ag.quotes[i].receivedAt)

\* C17 happens: two quotes of one group share the greatest timestamp and the
\* row carries the price of the one given later.
C17_Witness ==
    /\ ag.pc = "out"
    /\ Len(ag.quotes) = 2
    /\ ExpectedKey(ag.quotes[1]) = ExpectedKey(ag.quotes[2])
    /\ ag.quotes[1].receivedAt = ag.quotes[2].receivedAt
    /\ ag.quotes[1].receivedAt > 0
    /\ Len(ag.out) = 1
    /\ ag.out[1].price = ag.quotes[2].price

\* C38: a quote with the zero receivedAt stands for the time of the call: when
\* no earlier quote of its group has a timestamp later than that time (and
\* no later quote of the group replaces it in turn), the row of the group
\* carries its price and the time of the call as receivedAt.
C38_ZeroStampCountsAsNow ==
    ag.pc # "in" =>
        \A i \in 1..Len(ag.quotes) :
            LET G == Group(ExpectedKey(ag.quotes[i])) IN
            (/\ ag.quotes[i].receivedAt = 0
             /\ \A j \in G : j < i => Effective(ag.quotes[j].receivedAt) <= now
             /\ \A j \in G : j > i => Effective(ag.quotes[j].receivedAt) < now)
            => \E k \in 1..Len(ag.out) :
                  /\ RowKey(ag.out[k]) = ExpectedKey(ag.quotes[i])
                  /\ ag.out[k].price = ag.quotes[i].price
                  /\ ag.out[k].receivedAt = now

\* C38 witness: a quote stamped with the very time of the call is followed by
\* a quote of its group with the zero receivedAt, whose price the row carries.
C38_Witness ==
    /\ ag.pc = "out"
    /\ Len(ag.quotes) = 2
    /\ ExpectedKey(ag.quotes[1]) = ExpectedKey(ag.quotes[2])
    /\ ag.quotes[1].receivedAt = now
    /\ ag.quotes[2].receivedAt = 0
    /\ Len(ag.out) = 1
    /\ ag.out[1].price = ag.quotes[2].price
    /\ ag.out[1].receivedAt = now

\* C18: the rows are, one each, the distinct keys (symbol, canonical market,
\* side, currency) of the quotes given, the side being "" when includeSides
\* is false; quotes that differ only in currency keep separate rows.
C18_OneRowPerKey ==
    ag.pc # "in" =>
        /\ {RowKey(ag.out[k]) : k \in 1..Len(ag.out)}
             = {ExpectedKey(ag.quotes[i]) : i \in 1..Len(ag.quotes)}
        /\ \A k, l \in 1..Len(ag.out) : RowKey(ag.out[k]) = RowKey(ag.out[l]) => k = l

\* C18 happens: two quotes that differ only in currency gave two rows.
C18_Witness ==
    /\ ag.pc = "out"
    /\ Len(ag.quotes) = 2
    /\ ag.quotes[1].symbol = ag.quotes[2].symbol
    /\ ag.quotes[1].source = ag.quotes[2].source
    /\ ag.quotes[1].currency # ag.quotes[2].currency
    /\ Len(ag.out) = 2
    /\ ag.out[1].currency # ag.out[2].currency

SameButSide(q1, q2) ==
    /\ q1.symbol = q2.symbol
    /\ MarketOfTag(q1.source) = MarketOfTag(q2.source)
    /\ q1.currency = q2.currency

\* C19: with includeSides false every row has side "" and the quotes of one
\* symbol, market and currency give one row, holding the newest of them
\* whatever their sides; with includeSides true every side label of a
\* symbol, market and currency (the blank one too) has a row of its own that
\* keeps the label.
C19_SidesCollapseOrSeparate ==
    ag.pc # "in" =>
        IF ~ag.includeSides
        THEN /\ \A k \in 1..Len(ag.out) : ag.out[k].side = <<>>
             /\ \A i \in 1..Len(ag.quotes) :
                   LET same == {j \in 1..Len(ag.quotes) :
                                   SameButSide(ag.quotes[i], ag.quotes[j])}
                       rows == {k \in 1..Len(ag.out) :
                                   /\ ag.out[k].symbol = ag.quotes[i].symbol
                                   /\ ag.out[k].market = MarketOfTag(ag.quotes[i].source)
                                   /\ ag.out[k].currency = ag.quotes[i].currency}
                   IN /\ Cardinality(rows) = 1
                      /\ \A k \in rows : \E w \in same :
                            /\ Wins(w, same, Effective)
                            /\ ag.out[k].price = ag.quotes[w].price
        ELSE \A i \in 1..Len(ag.quotes) :
                Cardinality({k \in 1..Len(ag.out) :
                                /\ ag.out[k].symbol = ag.quotes[i].symbol
                                /\ ag.out[k].market = MarketOfTag(ag.quotes[i].source)
                                /\ ag.out[k].currency = ag.quotes[i].currency
                                /\ ag.out[k].side = SideOfTag(ag.quotes[i].source)}) = 1

\* C19 happens: with includeSides false a sell quote and a newer bid quote of
\* the same symbol, market and currency gave one row with side "" and the
\* newer price.
C19_Witness ==
    /\ ag.pc = "out"
    /\ ~ag.includeSides
    /\ Len(ag.quotes) = 2
    /\ SameButSide(ag.quotes[1], ag.quotes[2])
    /\ SideOfTag(ag.quotes[1].source) = <<"b", "i", "d">>
    /\ SideOfTag(ag.quotes[2].source) = <<"s", "e", "l", "l">>
    /\ ag.quotes[1].receivedAt > ag.quotes[2].receivedAt
    /\ ag.quotes[2].receivedAt > 0
    /\ Len(ag.out) = 1
    /\ ag.out[1].side = <<>>
    /\ ag.out[1].price = ag.quotes[1].price

\* The triple (symbol, market, side) of a row is at most that of another.
TripleLeq(a, b) ==
    \/ StrLess(a.symbol, b.symbol)
    \/ /\ a.symbol = b.symbol
       /\ \/ StrLess(a.market, b.market)
          \/ /\ a.market = b.market
             /\ \/ StrLess(a.side, b.side)
                \/ a.side = b.side

\* C22: the rows LatestByMarket returns ascend in (symbol, market, side):
\* of two adjacent rows the earlier one's triple is less than or equal to
\* the later one's.
C22_RowsAscending ==
    ag.pc # "in" =>
        \A i \in 1..(Len(ag.out) - 1) : TripleLeq(ag.out[i], ag.out[i + 1])

\* Two quotes given in descending order of symbol come out as two rows in
\* ascending order.
C22_Witness ==
    /\ ag.pc = "out"
    /\ Len(ag.quotes) = 2
    /\ StrLess(ag.quotes[2].symbol, ag.quotes[1].symbol)
    /\ Len(ag.out) = 2
    /\ ag.out[1].symbol = ag.quotes[2].symbol
    /\ ag.out[2].symbol = ag.quotes[1].symbol

\* C28: the site cache changes only where the entry is missing or has
\* expired at the time of the write: an entry that is still unexpired when a
\* refresh completes is never overwritten.
C28_CommitOnlyIfStillExpired ==
    [][\A s \in SiteIds :
          ssCache'[s] # ssCache[s] => (~ssCache[s].ok \/ now > ssCache[s].until)]_vars

\* A second refresh of site 1 completed with another payload than the one
\* cached meanwhile, and the cached one, unexpired, was kept.
C28_Witness ==
    \E p \in SProcs :
        /\ ssCall[p].pc = "check"
        /\ ssCall[p].idx = 2
        /\ ssCall[p].st[Sites[1]] = "refreshed"
        /\ ~ssCall[p].v.err.isErr
        /\ ssCache[Sites[1]].ok
        /\ now <= ssCache[Sites[1]].until
        /\ ssCache[Sites[1]].items # ssCall[p].v.items

(***************************************************************************)
(* writeQuotes (cmd/fetch/main.go): the fan-out of one aggregation request *)
(* to the providers.  Every provider's Fetch runs in a goroutine of its    *)
(* own with the request's context (a timeout on the caller's context) and  *)
(* sends its result on a channel buffered for len(providers) results;      *)
(* writeQuotes receives len(providers) results and writes the response.    *)
(***************************************************************************)
MaxProviders == 2
MaxProvQuotes == 1
FanMaxTime == 3
\* `context.WithTimeout(rctx, 15*time.Second)`, in ticks.
FanTimeout == 2

NoErr == <<>>
\* The error a provider returns when its upstream fails, and ctx.Err().
ProvErr(p) == <<"provider", p>>
CtxErr(cause) == <<"context", cause>>
\* A result sent on the channel: `result{qs, err}`.
Result(quotes, err) == [quotes |-> quotes, err |-> err]
NoRes == Result(<<>>, NoErr)
\* The k quotes provider p returns.
QuotesOf(p, k) == [j \in 1..k |-> <<p, j>>]

\* strings.Join(errs, "; ")
RECURSIVE Join(_, _)
Join(errs, sep) ==
    IF errs = <<>> THEN <<>>
    ELSE IF Len(errs) = 1 THEN <<errs[1]>>
    ELSE <<errs[1], sep>> \o Join(Tail(errs), sep)

\* ctx.Done() is closed: the timeout has elapsed or the caller's context
\* was cancelled.
FanCtxDone == wq.cause # ""

Tasks == 1..wq.n

\* What is observed when the context's signal fires: the cause, and the
\* quotes writeQuotes had gathered by then.
Fire(w, cause) ==
    IF w.cause = "" THEN [w EXCEPT !.cause = cause, !.gathered = w.all] ELSE w

\* `ch <- result{qs, err}` after p.Fetch returned.
Send(w, p, r) ==
    [w EXCEPT !.task[p] = "ret", !.res[p] = r, !.ch = Append(w.ch, p)]

\* A provider's Fetch returns k quotes and a nil error.
FanReturnOk(p, k) ==
    /\ wq.pc = "recv"
    /\ wq.task[p] = "run"
    /\ wq' = Send(wq, p, Result(QuotesOf(p, k), NoErr))
    /\ UNCHANGED now
    /\ UNCHANGED nonFan

\* A provider's Fetch returns nil quotes and its upstream's error.
FanReturnErr(p) ==
    /\ wq.pc = "recv"
    /\ wq.task[p] = "run"
    /\ wq' = Send(wq, p, Result(<<>>, ProvErr(p)))
    /\ UNCHANGED now
    /\ UNCHANGED nonFan

\* A provider's Fetch sees the context done and returns ctx.Err().
FanReturnCtxErr(p) ==
    /\ wq.pc = "recv"
    /\ wq.task[p] = "run"
    /\ FanCtxDone
    /\ wq' = Send(wq, p, Result(<<>>, CtxErr(wq.cause)))
    /\ UNCHANGED now
    /\ UNCHANGED nonFan

\* One round of the receive loop: `r := <-ch`, then errs or all grows.
FanRecv ==
    /\ wq.pc = "recv"
    /\ wq.i < wq.n
    /\ wq.ch # <<>>
    /\ LET r == wq.res[Head(wq.ch)]
       IN  wq' = [wq EXCEPT !.ch = Tail(wq.ch),
                            !.i = wq.i + 1,
                            !.errs = IF r.err # NoErr THEN Append(wq.errs, r.err)
                                     ELSE wq.errs,
                            !.all = IF r.err # NoErr THEN wq.all
                                    ELSE wq.all \o r.quotes]
    /\ UNCHANGED now
    /\ UNCHANGED nonFan

\* `len(all) == 0 && len(errs) > 0`
ShouldFailOnAnyError(all, errs) == Len(errs) > 0
ShouldFail(all, errs) == Len(all) = 0 /\ Len(errs) > 0

\* `resp := quotesResponse{Quotes: all}`
RespQuotesUnlessDone(w) == IF w.cause # "" THEN <<>> ELSE w.all
RespQuotes(w) == w.all

\* After the loop: 502 with the joined errors, or 200 with the quotes.
FanRespond ==
    /\ wq.pc = "recv"
    /\ wq.i = wq.n
    /\ wq' = [wq EXCEPT !.pc = "done",
                        !.resp = IF ShouldFail(wq.all, wq.errs)
                                 THEN [code |-> 502, quotes |-> <<>>,
                                       msg |-> Join(wq.errs, <<";">>)]
                                 ELSE [code |-> 200, quotes |-> RespQuotes(wq),
                                       msg |-> <<>>]]
    /\ UNCHANGED now
    /\ UNCHANGED nonFan

\* The caller's context is cancelled (the client went away).
FanCancel ==
    /\ wq.pc = "recv"
    /\ wq.cause = ""
    /\ wq' = Fire(wq, "canceled")
    /\ UNCHANGED now
    /\ UNCHANGED nonFan

\* Time passes; at the deadline the context's timer fires.
FanTick ==
    /\ wq.pc = "recv"
    /\ now < FanMaxTime
    /\ now' = now + 1
    /\ wq' = IF now + 1 >= wq.deadline THEN Fire(wq, "deadline") ELSE wq
    /\ UNCHANGED nonFan

\* writeQuotes has started its goroutines and is about to receive.
InitFanRun(n) ==
    wq = [n |-> n, deadline |-> FanTimeout, cause |-> "",
          task |-> [p \in 1..n |-> "run"],
          res |-> [p \in 1..n |-> NoRes],
          ch |-> <<>>, i |-> 0, all |-> <<>>, errs |-> <<>>,
          pc |-> "recv",
          resp |-> [code |-> 0, quotes |-> <<>>, msg |-> <<>>],
          gathered |-> <<>>]

InitFan == \E n \in 1..MaxProviders : InitFanRun(n)

RestFan == InitFanRun(1)

NextFan ==
    \/ \E p \in Tasks, k \in 0..MaxProvQuotes : FanReturnOk(p, k)
    \/ \E p \in Tasks : FanReturnErr(p)
    \/ \E p \in Tasks : FanReturnCtxErr(p)
    \/ FanRecv
    \/ FanRespond
    \/ FanCancel
    \/ FanTick

(***************************************************************************)
(* steamdt Provider.Fetch (internal/provider/steamdt/steamdt.go).  The     *)
(* unique keys go out in one request, or, when there are more than         *)
(* MaxItemsPerRequest of them, in batches: one goroutine per batch, which  *)
(* takes a permit of sem (or leaves when ctx is done), runs doBatch and    *)
(* records the first error under mu; Fetch waits for them all (wg.Wait).   *)
(* doBatch stores the entries it decoded in the map byMarketAll, which the *)
(* goroutines share and write without a lock.  A batch is named by its     *)
(* number, and so are the entries it returns.                              *)
(***************************************************************************)
MaxBatches == 2
MaxConc == 2

Batch == 1..sd.nb
EffMaxConcUnlimited(c) == IF c <= 0 THEN MaxBatches + 1 ELSE c

\* `if maxConc <= 0 { maxConc = 1 }`
EffMaxConc(c) == IF c <= 0 THEN 1 ELSE c
\* The error doBatch returns for a batch whose request failed, and the one
\* it returns when http.Client.Do fails on the cancelled context.
BatchErr(g) == <<"batch", g>>
CtxCancelled == <<"context", "canceled">>

\* `defer func() { <-sem }()` then `defer wg.Done()`: the goroutine ends.
Finish(s, g, how) ==
    [s EXCEPT !.pc[g] = "fin", !.how[g] = how,
              !.sem = IF s.single THEN s.sem ELSE s.sem - 1]

\* `case sem <- struct{}{}:` the goroutine takes a permit and calls doBatch.
SDAcquire(g) ==
    /\ sd.main = "wait"
    /\ sd.pc[g] = "select"
    /\ sd.sem < EffMaxConc(sd.maxConc)
    /\ sd' = [sd EXCEPT !.pc[g] = "req", !.sem = sd.sem + 1]
    /\ UNCHANGED nonSD

\* `case <-ctx.Done(): return`
SDSkip(g) ==
    /\ sd.main = "wait"
    /\ sd.pc[g] = "select"
    /\ sd.ctxDone
    /\ sd' = [sd EXCEPT !.pc[g] = "fin", !.how[g] = "skipped"]
    /\ UNCHANGED nonSD

\* `if firstErr == nil { firstErr = err }` under mu (the single request
\* path assigns firstErr, which is nil then).
Record(cur, err) == IF cur = NoErr THEN err ELSE cur

\* doBatch returns an error: the request failed, the status was not 2xx,
\* the body did not decode, or the upstream reported an error; with ctx
\* done the request fails with the context's error.
SDBatchFail(g, err) ==
    /\ sd.main = "wait"
    /\ sd.pc[g] = "req"
    /\ err = CtxCancelled => sd.ctxDone
    /\ sd' = [Finish(sd, g, "failed") EXCEPT !.firstErr = Record(sd.firstErr, err)]
    /\ UNCHANGED nonSD

\* doBatch decoded a good answer without entries and returns nil.
SDBatchEmpty(g) ==
    /\ sd.main = "wait"
    /\ sd.pc[g] = "req"
    /\ sd' = Finish(sd, g, "empty")
    /\ UNCHANGED nonSD

\* doBatch decoded a good answer and starts storing its entries:
\* `for _, e := range api.Data { byMarketAll[e.MarketHashName] = e }`.
\* The write is a data race when another goroutine is storing too.
SDWriteBegin(g) ==
    /\ sd.main = "wait"
    /\ sd.pc[g] = "req"
    /\ sd' = [sd EXCEPT !.pc[g] = "write",
                        !.raced = sd.raced \/ (\E h \in Batch : sd.pc[h] = "write")]
    /\ UNCHANGED nonSD

\* The entries are stored and doBatch returns nil.  After a racing write
\* the map holds the entries or has lost them.
SDWriteEnd(g, kept) ==
    /\ sd.main = "wait"
    /\ sd.pc[g] = "write"
    /\ ~kept => sd.raced
    /\ sd' = [Finish(sd, g, "stored") EXCEPT
                 !.byMarketAll = IF kept THEN sd.byMarketAll \cup {g}
                                 ELSE sd.byMarketAll]
    /\ UNCHANGED nonSD

\* The runtime detects the racing map writes and ends the process
\* ("fatal error: concurrent map writes"): Fetch never returns.
SDCrash ==
    /\ sd.main = "wait"
    /\ sd.raced
    /\ \E g \in Batch : sd.pc[g] = "write"
    /\ sd' = [sd EXCEPT !.main = "crashed"]
    /\ UNCHANGED nonSD

\* The caller's context is cancelled.
SDCancel ==
    /\ sd.main = "wait"
    /\ ~sd.ctxDone
    /\ sd' = [sd EXCEPT !.ctxDone = TRUE,
                        !.dataAtCancel = \E g \in Batch :
                                             sd.pc[g] = "write" \/ sd.how[g] = "stored"]
    /\ UNCHANGED nonSD

\* After wg.Wait(): the quotes of the entries in byMarketAll, or
\* `if len(out) == 0 && firstErr != nil { return nil, firstErr }`.
SDReturn ==
    /\ sd.main = "wait"
    /\ \A g \in Batch : sd.pc[g] = "fin"
    /\ sd' = [sd EXCEPT !.main = "done",
                        !.ret = IF sd.byMarketAll = {} /\ sd.firstErr # NoErr
                                THEN [quotes |-> {}, err |-> sd.firstErr]
                                ELSE [quotes |-> sd.byMarketAll, err |-> NoErr]]
    /\ UNCHANGED nonSD

\* Fetch has chunked the keys into nb batches: a single one is requested
\* by Fetch itself, several each by a goroutine that starts at the select.
InitSDRun(nb, maxConc) ==
    sd = [nb |-> nb, maxConc |-> maxConc, single |-> nb = 1,
          pc |-> [g \in 1..nb |-> IF nb = 1 THEN "req" ELSE "select"],
          how |-> [g \in 1..nb |-> ""],
          sem |-> 0, ctxDone |-> FALSE, dataAtCancel |-> FALSE,
          firstErr |-> NoErr, byMarketAll |-> {},
          raced |-> FALSE, main |-> "wait",
          ret |-> [quotes |-> {}, err |-> NoErr]]

InitSD == \E nb \in 1..MaxBatches, maxConc \in 0..MaxConc : InitSDRun(nb, maxConc)

RestSD == InitSDRun(1, 0)

NextSD ==
    \/ \E g \in Batch : SDAcquire(g)
    \/ \E g \in Batch : SDSkip(g)
    \/ \E g \in Batch : \E err \in {BatchErr(g), CtxCancelled} : SDBatchFail(g, err)
    \/ \E g \in Batch : SDBatchEmpty(g)
    \/ \E g \in Batch : SDWriteBegin(g)
    \/ \E g \in Batch, kept \in BOOLEAN : SDWriteEnd(g, kept)
    \/ SDCrash
    \/ SDCancel
    \/ SDReturn

(***************************************************************************)
(* The retry loop of fetchSplit (cmd/steamdt_dump/main.go 142-176) in      *)
(* time, for one batch: a request, and on 429/5xx with retries left a      *)
(* sleep of 250 ms * 2^attempt before the next one.  The worker gives      *)
(* fetchSplit a context with a timeout; doReq's request carries it.  One   *)
(* tick is 250 ms.                                                         *)
(***************************************************************************)
BoMaxRetries == 4
BoMaxTime == 8
\* The default of the flag `-retries`.
DefaultRetries == 3
\* `250` (ms), in ticks.
BaseDelay == 1

RECURSIVE Pow2(_)
Pow2(k) == IF k = 0 THEN 1 ELSE 2 * Pow2(k - 1)

\* `back := time.Duration(250*(1<<attempt)) * time.Millisecond`
Backoff(attempt) == BaseDelay * Pow2(attempt)

\* doReq answers 2xx: fetchSplit returns the data.
BoOk ==
    /\ bo.pc = "req"
    /\ ~bo.ctxDone
    /\ bo' = [bo EXCEPT !.pc = "done", !.ret = "data"]
    /\ UNCHANGED now
    /\ UNCHANGED nonBo

\* doReq answers 429 or 5xx: with retries left, `time.Sleep(back)` begins;
\* without, fetchSplit returns the error.
BoTransient ==
    /\ bo.pc = "req"
    /\ ~bo.ctxDone
    /\ bo' = IF bo.attempt < bo.maxRetries
             THEN [bo EXCEPT !.pc = "sleep", !.back = Backoff(bo.attempt),
                             !.wake = now + Backoff(bo.attempt)]
             ELSE [bo EXCEPT !.pc = "done", !.ret = "status"]
    /\ UNCHANGED now
    /\ UNCHANGED nonBo

\* With ctx done the request fails with the context's error, which is no
\* httpStatusErr: fetchSplit returns it.
BoCtxErr ==
    /\ bo.pc = "req"
    /\ bo.ctxDone
    /\ bo' = [bo EXCEPT !.pc = "done", !.ret = "ctx"]
    /\ UNCHANGED now
    /\ UNCHANGED nonBo

\* time.Sleep returns after `back`, whatever happened to ctx meanwhile:
\* `attempt++; continue`.
BoWake ==
    /\ bo.pc = "sleep"
    /\ now >= bo.wake
    /\ bo' = [bo EXCEPT !.pc = "req", !.attempt = @ + 1]
    /\ UNCHANGED now
    /\ UNCHANGED nonBo

\* The context's timeout elapses, or the context is cancelled.
BoCancel ==
    /\ bo.pc # "done"
    /\ ~bo.ctxDone
    /\ bo' = [bo EXCEPT !.ctxDone = TRUE, !.cancelAt = now,
                        !.inSleep = (bo.pc = "sleep" /\ now < bo.wake)]
    /\ UNCHANGED now
    /\ UNCHANGED nonBo

\* Time passes; a sleeper is woken when its delay is over.
BoTick ==
    /\ bo.pc # "done"
    /\ now < BoMaxTime
    /\ bo.pc = "sleep" => now < bo.wake
    /\ now' = now + 1
    /\ UNCHANGED bo
    /\ UNCHANGED nonBo

InitBoRun(m) ==
    bo = [maxRetries |-> m, attempt |-> 0, pc |-> "req", back |-> 0, wake |-> 0,
          ctxDone |-> FALSE, cancelAt |-> 0, inSleep |-> FALSE, ret |-> ""]

InitBo == \E m \in 0..BoMaxRetries : InitBoRun(m)

RestBo == InitBoRun(0)

NextBo ==
    \/ BoOk
    \/ BoTransient
    \/ BoCtxErr
    \/ BoWake
    \/ BoCancel
    \/ BoTick

(***************************************************************************)
(* Claims about the backoff of fetchSplit                                  *)
(***************************************************************************)
\* C30: a backoff wait observes the cancellation: once the context is done
\* during a backoff wait, fetchSplit does not go on sleeping while time
\* passes, it returns.
C30_BackoffObservesCancel ==
    ~(/\ bo.pc = "sleep"
      /\ bo.ctxDone
      /\ bo.inSleep
      /\ now > bo.cancelAt)

\* C31: the delay before retry number k (k = 0, 1, ...) is the base delay
\* doubled k times, and no delay exceeds a fixed maximum however large the
\* retry budget is; the maximum put to the test is the longest delay the
\* default budget can reach.
C31_DelayDoublesUpToCap ==
    bo.pc = "sleep" =>
        /\ bo.back = BaseDelay * 2^(bo.attempt)
        /\ bo.back <= BaseDelay * 2^(DefaultRetries - 1)

(***************************************************************************)
(* Claims about writeQuotes                                                *)
(***************************************************************************)
Elems(seq) == {seq[j] : j \in 1..Len(seq)}
\* The providers whose Fetch returned a nil error, and those whose Fetch
\* returned an error.
Succeeded == {p \in Tasks : wq.task[p] = "ret" /\ wq.res[p].err = NoErr}
Failing == {p \in Tasks : wq.task[p] = "ret" /\ wq.res[p].err # NoErr}
\* The quotes obtained from the providers.
Obtained == UNION {Elems(wq.res[p].quotes) : p \in Succeeded}

\* C23: writeQuotes fails (502) exactly when no quote was obtained from any
\* provider and at least one provider returned an error, and then the error
\* it reports holds the error of every failing provider; otherwise it
\* answers 200 with the quotes of all the providers that succeeded, each
\* once, however many providers failed.
C23_FailsOnlyWithoutAnyQuote ==
    wq.pc = "done" =>
        /\ wq.resp.code \in {200, 502}
        /\ wq.resp.code = 502 <=> (Obtained = {} /\ Failing # {})
        /\ wq.resp.code = 200 =>
               /\ Elems(wq.resp.quotes) = Obtained
               /\ Len(wq.resp.quotes) = Cardinality(Obtained)
        /\ wq.resp.code = 502 =>
               \A p \in Failing : wq.res[p].err \in Elems(wq.resp.msg)

\* One provider failed, another returned quotes, and the request succeeded.
C23_Witness ==
    /\ wq.pc = "done"
    /\ wq.resp.code = 200
    /\ Failing # {}
    /\ wq.resp.quotes # <<>>

\* C24: once the request's deadline has passed, writeQuotes is not still
\* blocked waiting for the result of a provider task that has not returned.
C24_NoWaitPastDeadline ==
    ~(/\ now > wq.deadline
      /\ wq.pc = "recv"
      /\ wq.ch = <<>>
      /\ \E p \in Tasks : wq.task[p] = "run")

\* C25 as stated: when the deadline or cancel signal has fired, none of the
\* quotes gathered before it fired is part of the response.
C25_PartialResultsDiscarded ==
    (wq.pc = "done" /\ FanCtxDone) =>
        \A q \in Elems(wq.gathered) : q \notin Elems(wq.resp.quotes)

\* C25, amended: when the deadline or cancel signal has fired, every quote
\* gathered before it fired is part of the response.
C25_PartialResultsKept ==
    (wq.pc = "done" /\ FanCtxDone) =>
        \A q \in Elems(wq.gathered) : q \in Elems(wq.resp.quotes)

\* The signal fired after a provider's quotes were gathered, and another
\* provider returned the context's error.
C25_Witness ==
    /\ wq.pc = "done"
    /\ FanCtxDone
    /\ wq.gathered # <<>>
    /\ \E p \in Tasks : wq.res[p].err = CtxErr(wq.cause)

(***************************************************************************)
(* Claims about steamdt Provider.Fetch                                     *)
(***************************************************************************)
\* C26: a Fetch whose context was cancelled before any batch had produced
\* data never returns an empty quote list with a nil error (it returns the
\* cancellation as a non-nil error), however the batch goroutines
\* interleave.
C26_CancelledFetchReturnsError ==
    (sd.main = "done" /\ sd.ctxDone /\ ~sd.dataAtCancel) =>
        ~(sd.ret.quotes = {} /\ sd.ret.err = NoErr)

\* C27: with several batches, the entries of every batch that succeeded are
\* in the result, an error is returned only when no batch produced a quote
\* and some batch failed, and no batch is left out because another failed
\* (only because the context was cancelled).
C27_FailingBatchSparesOthers ==
    (sd.main = "done" /\ ~sd.single) =>
        /\ \A g \in Batch : sd.how[g] = "stored" => g \in sd.ret.quotes
        /\ sd.ret.err # NoErr =>
               /\ \A g \in Batch : sd.how[g] # "stored"
               /\ \E g \in Batch : sd.how[g] = "failed"
        /\ \A g \in Batch : sd.how[g] = "skipped" => sd.ctxDone

\* The batches whose request is in flight (doBatch is running).
InFlight == {g \in Batch : sd.pc[g] \in {"req", "write"}}

\* C33: in a Fetch that splits the keys into several batches, at most
\* MaxConcurrency batch requests (one when MaxConcurrency <= 0) are in
\* flight at any moment, and Fetch has returned only if every batch
\* goroutine has finished.
C33_AtMostMaxConcurrencyInFlight ==
    ~sd.single =>
        /\ Cardinality(InFlight) <= (IF sd.maxConc <= 0 THEN 1 ELSE sd.maxConc)
        /\ sd.main = "done" => \A g \in Batch : sd.pc[g] = "fin"

\* With MaxConcurrency 0 one batch is in flight and another waits for the
\* permit.
C33_Witness ==
    /\ ~sd.single
    /\ sd.maxConc = 0
    /\ \E g, h \in Batch : sd.pc[g] = "req" /\ sd.pc[h] = "select" /\ ~sd.ctxDone

\* C39: no two batch goroutines are storing into byMarketAll at the same
\* time.
C39_MapWritesExclusive ==
    Cardinality({g \in Batch : sd.pc[g] = "write"}) <= 1

(***************************************************************************)
(* cache.Provider.mu                                                       *)
(*                                                                         *)
(* Concurrent Fetch calls on one cache.Provider built as in                *)
(* cmd/fetch/main.go (`&cache.Provider{P: ..., TTL: ..., MaxItems: ...}`,  *)
(* so items starts nil), each with a missing symbol. Only the accesses to  *)
(* the field items and the steps on mu are followed.                       *)
(***************************************************************************)
MaxGor == 2         \* most goroutines calling Fetch at once

Gor == 1..lk.n

\* sync.RWMutex: Lock waits for the writer and the readers, RLock for the
\* writer.
CanLock == lk.w = 0 /\ lk.r = {}
CanRLock == lk.w = 0

\* `c.mu.RLock()` (cache.go 43).
LkRLock(g) ==
    /\ lk.pc[g] = "start"
    /\ CanRLock
    /\ lk' = [lk EXCEPT !.r = @ \cup {g}, !.pc[g] = "lookup"]
    /\ UNCHANGED nonLk

\* The lookups `c.items[s]` and `c.mu.RUnlock()` (cache.go 44-51); a lookup
\* in a nil map finds nothing.
LkRUnlock(g) ==
    /\ lk.pc[g] = "lookup"
    /\ lk' = [lk EXCEPT !.r = @ \ {g}, !.pc[g] = "upstream"]
    /\ UNCHANGED nonLk

\* `fresh, err := c.P.Fetch(ctx, missing)` returns (cache.go 67-74).
LkUpstream(g, failed) ==
    /\ lk.pc[g] = "upstream"
    /\ lk' = [lk EXCEPT !.pc[g] = IF failed THEN "done" ELSE "ifnil"]
    /\ UNCHANGED nonLk

\* Another goroutine's next step is `c.items = make(...)`.
MakePending(g) == \E h \in Gor : h # g /\ lk.pc[h] = "make" /\ lk.itemsNil

\* The outer `if c.items == nil` (cache.go 83), with no lock held. When it
\* runs together with another goroutine's `c.items = make(...)` the read
\* yields the old or the new value.
LkIfNil(g) ==
    /\ lk.pc[g] = "ifnil"
    /\ \E saw \in (IF MakePending(g) THEN BOOLEAN ELSE {lk.itemsNil}) :
          lk' = [lk EXCEPT !.pc[g] = IF saw THEN "lock1" ELSE "lock2",
                           !.raced = @ \/ MakePending(g)]
    /\ UNCHANGED nonLk

\* `c.mu.Lock()` (cache.go 84).
LkLock1(g) ==
    /\ lk.pc[g] = "lock1"
    /\ CanLock
    /\ lk' = [lk EXCEPT !.w = g, !.pc[g] = "make"]
    /\ UNCHANGED nonLk

\* `if c.items == nil { c.items = make(...) }; c.mu.Unlock()` (cache.go 85-86).
LkMake(g) ==
    /\ lk.pc[g] = "make"
    /\ lk' = [lk EXCEPT !.itemsNil = FALSE, !.w = 0, !.pc[g] = "lock2",
                        !.made = @ + (IF lk.itemsNil THEN 1 ELSE 0)]
    /\ UNCHANGED nonLk

\* `c.mu.Lock()` (cache.go 90).
LkLock2(g) ==
    /\ lk.pc[g] = "lock2"
    /\ CanLock
    /\ lk' = [lk EXCEPT !.w = g, !.pc[g] = "store"]
    /\ UNCHANGED nonLk

\* `c.items[sym] = entry{...}`, the eviction and `c.mu.Unlock()` (cache.go
\* 91-111); an assignment to an entry of a nil map panics.
LkStore(g) ==
    /\ lk.pc[g] = "store"
    /\ lk' = [lk EXCEPT !.w = 0,
                        !.pc[g] = IF lk.itemsNil THEN "panic" ELSE "merge",
                        !.last = IF lk.itemsNil THEN @ ELSE g]
    /\ UNCHANGED nonLk

\* The final loop (cache.go 113-121): `c.mu.RLock()`.
LkMergeRLock(g) ==
    /\ lk.pc[g] = "merge"
    /\ CanRLock
    /\ lk' = [lk EXCEPT !.r = @ \cup {g}, !.pc[g] = "reread"]
    /\ UNCHANGED nonLk

\* The final loop: `e, ok := c.items[s]; c.mu.RUnlock()` (cache.go 122-125).
LkMergeRUnlock(g) ==
    /\ lk.pc[g] = "reread"
    /\ lk' = [lk EXCEPT !.r = @ \ {g}, !.pc[g] = "done"]
    /\ UNCHANGED nonLk

InitLkRun(n) ==
    lk = [n |-> n, itemsNil |-> TRUE, w |-> 0, r |-> {},
          pc |-> [g \in 1..n |-> "start"], raced |-> FALSE, made |-> 0, last |-> 0]

InitLk == \E n \in 1..MaxGor : InitLkRun(n)

\* The component at rest, for the specifications of the other components.
RestLk == InitLkRun(1)

NextLk ==
    \/ \E g \in Gor : LkRLock(g)
    \/ \E g \in Gor : LkRUnlock(g)
    \/ \E g \in Gor, failed \in BOOLEAN : LkUpstream(g, failed)
    \/ \E g \in Gor : LkIfNil(g)
    \/ \E g \in Gor : LkLock1(g)
    \/ \E g \in Gor : LkMake(g)
    \/ \E g \in Gor : LkLock2(g)
    \/ \E g \in Gor : LkStore(g)
    \/ \E g \in Gor : LkMergeRLock(g)
    \/ \E g \in Gor : LkMergeRUnlock(g)

\* The goroutines whose next step reads the field items or the map, and
\* those whose next step writes it.
LkReads(g) == lk.pc[g] \in {"lookup", "ifnil", "reread"}
LkWrites(g) == lk.pc[g] \in {"make", "store"}

\* C36: a goroutine reads the map only with mu held (shared or exclusive)
\* and writes it only with mu held exclusively, so that no access is made
\* together with a write of another goroutine.
C36_MapAccessUnderLock ==
    /\ \A g \in Gor : LkReads(g) => (g \in lk.r \/ lk.w = g)
    /\ \A g \in Gor : LkWrites(g) => lk.w = g
    /\ \A g, h \in Gor : (g # h /\ LkWrites(g)) => ~(LkReads(h) \/ LkWrites(h))
    /\ ~lk.raced

InitC ==
    /\ now = 0
    /\ InitCache
    /\ RestRL
    /\ RestSplit
    /\ RestSS
    /\ RestNorm
    /\ RestAgg
    /\ RestFan
    /\ RestSD
    /\ RestBo
    /\ RestLk

InitR ==
    /\ now = 0
    /\ RestCache
    /\ InitRL
    /\ RestSplit
    /\ RestSS
    /\ RestNorm
    /\ RestAgg
    /\ RestFan
    /\ RestSD
    /\ RestBo
    /\ RestLk

InitS ==
    /\ now = 0
    /\ RestCache
    /\ RestRL
    /\ InitSplit
    /\ RestSS
    /\ RestNorm
    /\ RestAgg
    /\ RestFan
    /\ RestSD
    /\ RestBo
    /\ RestLk

InitK ==
    /\ now = 0
    /\ RestCache
    /\ RestRL
    /\ RestSplit
    /\ InitSS
    /\ RestNorm
    /\ RestAgg
    /\ RestFan
    /\ RestSD
    /\ RestBo
    /\ RestLk

InitA ==
    /\ now = AggNow
    /\ RestCache
    /\ RestRL
    /\ RestSplit
    /\ RestSS
    /\ RestNorm
    /\ InitAgg
    /\ RestFan
    /\ RestSD
    /\ RestBo
    /\ RestLk

InitT ==
    /\ now = AggNow
    /\ RestCache
    /\ RestRL
    /\ RestSplit
    /\ RestSS
    /\ RestNorm
    /\ InitTags
    /\ RestFan
    /\ RestSD
    /\ RestBo
    /\ RestLk

InitN ==
    /\ now = 0
    /\ RestCache
    /\ RestRL
    /\ RestSplit
    /\ RestSS
    /\ InitNorm
    /\ RestAgg
    /\ RestFan
    /\ RestSD
    /\ RestBo
    /\ RestLk

InitF ==
    /\ now = 0
    /\ RestCache
    /\ RestRL
    /\ RestSplit
    /\ RestSS
    /\ RestNorm
    /\ RestAgg
    /\ InitFan
    /\ RestSD
    /\ RestBo
    /\ RestLk

InitD ==
    /\ now = 0
    /\ RestCache
    /\ RestRL
    /\ RestSplit
    /\ RestSS
    /\ RestNorm
    /\ RestAgg
    /\ RestFan
    /\ InitSD
    /\ RestBo
    /\ RestLk

InitB ==
    /\ now = 0
    /\ RestCache
    /\ RestRL
    /\ RestSplit
    /\ RestSS
    /\ RestNorm
    /\ RestAgg
    /\ RestFan
    /\ RestSD
    /\ InitBo
    /\ RestLk

InitL ==
    /\ now = 0
    /\ RestCache
    /\ RestRL
    /\ RestSplit
    /\ RestSS
    /\ RestNorm
    /\ RestAgg
    /\ RestFan
    /\ RestSD
    /\ RestBo
    /\ InitLk

NextCache ==
    \/ \E p \in CProcs, symbols \in Requests : CacheStart(p, symbols)
    \/ \E p \in CProcs : CacheUpstreamFail(p)
    \/ \E p \in CProcs : CacheUpstreamOk(p)
    \/ \E p \in CProcs : CacheStore(p)
    \/ \E p \in CProcs : CacheMerge(p)
    \/ \E p \in CProcs : CacheReturn(p)
    \/ CacheTick

SpecCache == InitC /\ [][NextCache]_vars

SpecRL == InitR /\ [][NextRL]_vars

SpecSplit == InitS /\ [][NextSplit]_vars

SpecSS == InitK /\ [][NextSS]_vars

SpecAgg == InitA /\ [][NextAgg]_vars

SpecTags == InitT /\ [][NextAgg]_vars

SpecNorm == InitN /\ [][NextNorm]_vars

SpecFan == InitF /\ [][NextFan]_vars

SpecSD == InitD /\ [][NextSD]_vars

SpecLock == InitL /\ [][NextLk]_vars

SpecBackoff == InitB /\ [][NextBo]_vars

====
